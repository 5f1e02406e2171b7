----------------------------- MODULE MC_Engine -----------------------------
EXTENDS Engine

\* Cosines of 1, 0.99, 0.45 (accepted, not good), 0.32 (fair, not accepted), and below 0.
mcVectors == {<<1, 0>>, <<1, 2>>, <<1, 3>>, <<-1, 0>>}
mcA == <<1, 0>>
mcB == <<1, 2>>
mcC == <<1, 3>>
mcD == <<-1, 0>>
\* With mcA, a cosine of 0.47: good, and not accepted by a threshold of 0.50.
mcE == <<9, 17>>
\* All alike, one apart at each place, all apart, and ties.
mcSamples ==
    {<<mcA, mcA, mcA>>, <<mcB, mcB, mcC>>, <<mcC, mcB, mcC>>, <<mcA, mcB, mcC>>, <<mcB, mcA, mcC>>,
     <<mcB, mcC, mcA>>, <<mcA, mcD, mcA>>, <<mcD, mcA, mcB>>, <<mcD, mcD, mcC>>, <<mcA, mcB, mcD>>}
Face(w, h, v) == [w |-> w, h |-> h, of |-> v]
\* Nothing read, nobody, a face too small, one, two, and a large one that is too thin.
mcFrames ==
    {None, <<Face(2, 2, mcE)>>, <<>>, <<Face(1, 2, mcA)>>, <<Face(1, 9, mcA), Face(2, 2, mcB)>>} \cup
    UNION {{<<Face(2, 2, v)>>, <<Face(2, 2, v), Face(3, 3, mcA)>>} : v \in mcVectors}
mcThresholds == {1296, 2500}
mcReads == {<<>>} \cup {<<a>> : a \in mcFrames} \cup {<<<<Face(2, 2, mcC)>>, b>> : b \in mcFrames}

mcLangs == {<<"en">>, <<"fr">>, <<"pt", "BR">>, <<"zh", "Hans">>}
mcEngineKeys == {"engine.btn.face", "engine.btn.touch", "engine.btn.password"}
mcKeys == mcEngineKeys \cup {"move.title"}
mcUntranslated == {<<"move.title", <<"pt", "BR">>>>, <<"move.title", <<"zh", "Hans">>>>}
mcSettings == {[threshold |-> "0.36", modal |-> TRUE, hud |-> FALSE],
               [threshold |-> "0.45", modal |-> FALSE, hud |-> TRUE]}
mcOwnEnvs == {<<>>, [FACEID_MODAL |-> "", FACEID_HUD |-> "0"],
              [FACEID_MODAL |-> "1", FACEID_THRESHOLD |-> ""], [FACEID_MODAL |-> "1"],
              [FACEID_TIMEOUT |-> ""], [FACEID_TIMEOUT |-> "2.5", FACEID_MIN_FACE |-> "80"],
              [FACEID_LANG |-> <<"fr">>, FACEID_MODELS_DIR |-> "other"]}
mcPreferences == {<<>>, <<<<"fr", "CA">>, <<"en">>>>, <<<<"zh", "Hans", "CN">>>>,
                  <<<<"pt", "PT">>>>, <<<<"pt", "BR">>>>, <<<<"sv">>, <<"fr">>>>}
=============================================================================
