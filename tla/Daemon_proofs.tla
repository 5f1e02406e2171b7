--------------------------- MODULE Daemon_proofs ---------------------------
(***************************************************************************)
(* Proofs about the daemon, for every set of clients and nonces and every  *)
(* bound: type correctness, the inductive invariant IInv and the safety    *)
(* invariants it implies, that the daemon implements AuthService, and that *)
(* one life of it admits no nonce twice.                                   *)
(***************************************************************************)
EXTENDS Daemon, FiniteSetTheorems, SequenceTheorems, TLAPS

-----------------------------------------------------------------------------
(* Lemmas about the helpers.                                               *)

(* What a client makes of a reply is never "none", and it is a grant only  *)
(* after one of the two approving replies.                                 *)
LEMMA ConcludedFacts ==
  ASSUME NEW r \in Replies
  PROVE  /\ Concluded(r) \in Results \ {"none"}
         /\ Concluded(r) = "granted" <=> r \in {"OK", "APPROVED"}
  BY DEF Concluded, Replies, Results

(* The table of nonces after one more keeps its bound and holds that one.  *)
LEMMA RememberFacts ==
  ASSUME usedNonces \subseteq Nonces, NEW n \in Nonces
  PROVE  /\ Remember(n) \subseteq Nonces
         /\ n \in Remember(n)
         /\ Cardinality(Remember(n)) <= NonceLimit
<1> DEFINE more == usedNonces \cup {n}
<1>1. more \subseteq Nonces /\ n \in more
  OBVIOUS
<1>2. IsFiniteSet(more) /\ Cardinality(more) \in Nat
  BY <1>1, FS_Subset, FS_CardinalityType, DaemonAssumption
<1>3. Cardinality({n}) = 1
  BY FS_Singleton
<1>4. 1 <= NonceLimit /\ NonceLimit \in Nat
  BY DaemonAssumption
<1>5. CASE Cardinality(more) > NonceLimit
  <2>1. Remember(n) = {n}
    BY <1>5 DEF Remember
  <2>2. QED
    BY <1>3, <1>4, <2>1
<1>6. CASE ~(Cardinality(more) > NonceLimit)
  <2>1. Remember(n) = more
    BY <1>6 DEF Remember
  <2>2. Cardinality(more) <= NonceLimit
    BY <1>2, <1>4, <1>6
  <2>3. QED
    BY <1>1, <2>1, <2>2
<1>7. QED
  BY <1>5, <1>6

(* The requests a client may make are requests.                            *)
LEMMA PossibleRequestsType ==
  ASSUME now \in Nat
  PROVE  PossibleRequests \subseteq Requests
<1>1. (CHOOSE n \in Nonces : TRUE) \in Nonces
  BY DaemonAssumption
<1>2. now..(now + MaxLife + 1) \subseteq Nat
  BY DaemonAssumption
<1>3. QED
  BY <1>1, <1>2 DEF PossibleRequests, Requests, Kinds

-----------------------------------------------------------------------------
(* Type correctness.                                                       *)

(* The initial states have the right types.                                *)
LEMMA InitTypeOK == Init => TypeOK
<1> SUFFICES ASSUME Init PROVE TypeOK
  OBVIOUS
<1>1. (CHOOSE n \in Nonces : TRUE) \in Nonces
  BY DaemonAssumption
<1>2. request \in [Clients -> Requests] /\ result \in [Clients -> Results]
  BY <1>1 DEF Init, Requests, Kinds, Results
<1>3. backlog \in Seq(Clients)
  BY EmptySeq DEF Init
<1>4. QED
  BY <1>2, <1>3 DEF Init, TypeOK, Replies

(* What the step of a client keeps.                                        *)
LEMMA ConnectTypes ==
  ASSUME TypeOK, NEW c \in Clients, NEW r \in PossibleRequests, Connect(c, r)
  PROVE  TypeOK'
<1>1. r \in Requests
  BY PossibleRequestsType DEF TypeOK
<1>2. request' \in [Clients -> Requests]
  BY <1>1 DEF Connect, TypeOK
<1>3. result' \in [Clients -> Results] /\ connected' \subseteq Clients
      /\ backlog' \in Seq(Clients)
  BY DEF Connect, TypeOK, Results
<1>4. QED
  BY <1>2, <1>3 DEF Connect, TypeOK, memoryVars, historyVars

(* Receiving a request keeps the types.                                    *)
LEMMA ReceiveTypes ==
  ASSUME TypeOK, QueueIsOrderly, Receive
  PROVE  TypeOK'
<1>1. conn \in Clients
  BY DEF TypeOK, QueueIsOrderly, Receive
<1>2. request[conn].nonce \in Nonces
  BY <1>1 DEF TypeOK, Requests
<1>3. Remember(request[conn].nonce) \subseteq Nonces
  BY <1>2, RememberFacts DEF TypeOK
<1>4. /\ usedNonces' \subseteq Nonces /\ everAdmitted' \subseteq Nonces
      /\ activeRequest' \in BOOLEAN /\ reused' \in BOOLEAN
  BY <1>2, <1>3 DEF Receive, RejectAction, AdmitAction, memoryVars, TypeOK
<1>5. /\ reply' \in Replies
      /\ pc' \in {"accept", "choose", "scan", "action", "send"}
  BY DEF Receive, RejectAction, AdmitAction, Answer, GoOn, Replies, TypeOK
<1>6. conn' \in Clients \cup {NoClient}
  BY DEF Receive, TypeOK
<1>7. QED
  BY <1>4, <1>5, <1>6 DEF Receive, TypeOK, clientVars

(* Every step keeps the types.                                             *)
LEMMA StepTypeOK == TypeOK /\ QueueIsOrderly /\ [Next]_vars => TypeOK'
<1> SUFFICES ASSUME TypeOK, QueueIsOrderly, [Next]_vars PROVE TypeOK'
  OBVIOUS
<1> USE DEF clientVars, memoryVars, historyVars
<1>1. CASE Asking
  BY <1>1, ConnectTypes DEF Asking
<1>2. CASE Leaving
  BY <1>2 DEF Leaving, GiveUp, Conclude, TypeOK, Results
<1>3. CASE Serving
  <2>1. CASE Accept
    <3>1. Head(backlog) \in Clients /\ Tail(backlog) \in Seq(Clients)
      BY <2>1 DEF Accept, TypeOK
    <3>2. QED
      BY <2>1, <3>1 DEF Accept, TypeOK
  <2>2. CASE Receive
    BY <2>2, ReceiveTypes
  <2>3. CASE ChooseMethod \/ Verify \/ ActionPanel \/ ActionScan
    <3>1. conn \in Clients
      BY <2>3 DEF ChooseMethod, Verify, ActionPanel, ActionScan, QueueIsOrderly, TypeOK
    <3>2. /\ pc' \in {"scan", "touch", "actionScan", "send"} /\ reply' \in Replies
          /\ activeRequest' \in BOOLEAN
          /\ verified' \subseteq Clients /\ consented' \subseteq Clients
      BY <2>3, <3>1 DEF ChooseMethod, Verify, ActionPanel, ActionScan, Answer, GoOn,
                        Replies, TypeOK
    <3>3. Working
      BY <2>3 DEF ChooseMethod, Verify, ActionPanel, ActionScan
    <3>4. QED
      BY <3>2, <3>3 DEF Working, TypeOK
  <2>4. CASE Send
    <3>1. Concluded(reply) \in Results
      BY ConcludedFacts DEF TypeOK
    <3>2. result' \in [Clients -> Results] /\ connected' \subseteq Clients
      BY <2>4, <3>1 DEF Send, Conclude, TypeOK
    <3>3. QED
      BY <2>4, <3>2 DEF Send, TypeOK, Replies
  <2>5. QED
    BY <1>3, <2>1, <2>2, <2>3, <2>4 DEF Serving
<1>4. CASE Start
  BY <1>4 DEF Start, TypeOK
<1>5. CASE Die
  <2>1. backlog' \in Seq(Clients) /\ reply' \in Replies
    BY <1>5, EmptySeq DEF Die, Replies
  <2>2. result' \in [Clients -> Results]
    BY <1>5 DEF Die, TypeOK, Results
  <2>3. QED
    BY <1>5, <2>1, <2>2 DEF Die, TypeOK
<1>6. CASE Tick
  BY <1>6 DEF Tick, TypeOK
<1>7. CASE UNCHANGED vars
  BY <1>7 DEF vars, TypeOK
<1>8. QED
  BY <1>1, <1>2, <1>3, <1>4, <1>5, <1>6, <1>7 DEF Next

-----------------------------------------------------------------------------
(* The inductive invariant, one conjunct at a time.                        *)

(* A client that has asked has asked for good, and its request stays.      *)
LEMMA AskedForGood ==
  ASSUME TypeOK, [Next]_vars, NEW c \in Clients, HasAsked(c)
  PROVE  HasAsked(c)' /\ request'[c] = request[c]
<1> USE DEF clientVars, memoryVars, historyVars
<1>1. CASE Asking
  BY <1>1 DEF Asking, Connect, HasAsked, TypeOK
<1>2. CASE Leaving
  BY <1>2 DEF Leaving, GiveUp, Conclude, HasAsked, TypeOK
<1>3. CASE Send
  <2>1. Concluded(reply) # "none"
    BY ConcludedFacts DEF TypeOK
  <2>2. QED
    BY <1>3, <2>1 DEF Send, Conclude, HasAsked, TypeOK
<1>4. CASE Die
  BY <1>4 DEF Die, HasAsked, TypeOK
<1>5. CASE UNCHANGED clientVars
  BY <1>5 DEF HasAsked
<1>6. QED
  BY <1>1, <1>2, <1>3, <1>4, <1>5
  DEF Next, Serving, Accept, Receive, ChooseMethod, Verify, ActionPanel, ActionScan,
      Working, Start, Tick, vars

(* The clients of the queue are of those that asked.                       *)
LEMMA StepBacklog ==
  ASSUME TypeOK, QueueIsOrderly, [Next]_vars
  PROVE  \A i \in 1..Len(backlog') : HasAsked(backlog[i])'
<1> USE DEF clientVars, memoryVars, historyVars
<1>1. \A i \in 1..Len(backlog) : backlog[i] \in Clients
  BY DEF TypeOK
<1>2. \A i \in 1..Len(backlog) : HasAsked(backlog[i])
  BY DEF QueueIsOrderly
<1>3. \A c \in Clients : HasAsked(c) => c \in connected' \/ result'[c] # "none"
  BY AskedForGood DEF HasAsked
<1>4. CASE UNCHANGED backlog
  BY <1>1, <1>2, <1>3, <1>4 DEF HasAsked
<1>5. CASE Asking
  <2>1. PICK c \in Clients, r \in PossibleRequests : Connect(c, r)
    BY <1>5 DEF Asking
  <2>2. CASE pc = "down" \/ Len(backlog) >= Backlog
    BY <1>4, <2>1, <2>2 DEF Connect
  <2>3. CASE ~(pc = "down" \/ Len(backlog) >= Backlog)
    <3>1. backlog' = Append(backlog, c) /\ c \in connected'
      BY <2>1, <2>3 DEF Connect
    <3>2. \A i \in 1..Len(backlog') :
             \/ i \in 1..Len(backlog) /\ backlog'[i] = backlog[i]
             \/ backlog'[i] = c
      BY <3>1 DEF TypeOK
    <3>3. QED
      BY <1>1, <1>2, <1>3, <3>1, <3>2 DEF HasAsked
  <2>4. QED
    BY <2>2, <2>3
<1>6. CASE Accept
  <2>1. backlog' = Tail(backlog) /\ backlog # <<>>
    BY <1>6 DEF Accept
  <2>2. \A i \in 1..Len(backlog') :
           i + 1 \in 1..Len(backlog) /\ backlog'[i] = backlog[i + 1]
    BY <2>1 DEF TypeOK
  <2>3. QED
    BY <1>1, <1>2, <1>3, <2>2 DEF HasAsked
<1>7. CASE Die
  <2>1. backlog' = <<>>
    BY <1>7 DEF Die
  <2>2. 1..Len(<<>>) = {}
    BY EmptySeq
  <2>3. QED
    BY <2>1, <2>2
<1>8. QED
  BY <1>4, <1>5, <1>6, <1>7
  DEF Next, Leaving, GiveUp, Serving, Receive, ChooseMethod, Verify, ActionPanel,
      ActionScan, Working, Send, Start, Tick, vars

(* The queue and the thread stay in order.                                 *)
LEMMA StepQueue ==
  ASSUME TypeOK, QueueIsOrderly, [Next]_vars
  PROVE  QueueIsOrderly'
<1> USE DEF clientVars, memoryVars, historyVars
<1>1. (\A i \in 1..Len(backlog) : HasAsked(backlog[i]))'
  BY StepBacklog
<1>2. conn' = NoClient <=> pc' \in {"down", "accept"}
  <2>1. CASE Accept
    <3>1. Head(backlog) \in Clients
      BY <2>1 DEF Accept, TypeOK
    <3>2. QED
      BY <2>1, <3>1, DaemonAssumption DEF Accept
  <2>2. CASE Receive
    BY <2>2 DEF Receive, RejectAction, AdmitAction, Answer, GoOn, QueueIsOrderly
  <2>3. CASE ChooseMethod \/ Verify \/ ActionPanel \/ ActionScan
    BY <2>3 DEF ChooseMethod, Verify, ActionPanel, ActionScan, Working, Answer, GoOn,
                QueueIsOrderly
  <2>4. CASE Send \/ Start \/ Die
    BY <2>4 DEF Send, Start, Die, QueueIsOrderly
  <2>5. CASE UNCHANGED <<conn, pc>>
    BY <2>5 DEF QueueIsOrderly
  <2>6. QED
    BY <2>1, <2>2, <2>3, <2>4, <2>5
    DEF Next, Asking, Connect, Leaving, GiveUp, Serving, Tick, vars
<1>3. conn' # NoClient => HasAsked(conn)'
  <2>1. CASE UNCHANGED conn
    BY <2>1, AskedForGood DEF QueueIsOrderly, TypeOK, HasAsked
  <2>2. CASE Accept
    <3>1. 1 \in 1..Len(backlog) /\ Head(backlog) = backlog[1] /\ Head(backlog) \in Clients
      BY <2>2 DEF Accept, TypeOK
    <3>2. HasAsked(Head(backlog)) /\ conn' = Head(backlog) /\ UNCHANGED clientVars
      BY <2>2, <3>1 DEF Accept, QueueIsOrderly
    <3>3. QED
      BY <3>2 DEF HasAsked
  <2>3. CASE conn' = NoClient
    BY <2>3
  <2>4. QED
    BY <2>1, <2>2, <2>3
    DEF Next, Asking, Connect, Leaving, GiveUp, Serving, Receive, ChooseMethod, Verify,
        ActionPanel, ActionScan, Working, Send, Start, Die, Tick, vars
<1>4. pc' = "down" => backlog' = <<>>
  <2>1. CASE Asking
    BY <2>1 DEF Asking, Connect, QueueIsOrderly
  <2>2. CASE Serving
    BY <2>2 DEF Serving, Accept, Receive, RejectAction, AdmitAction, ChooseMethod, Verify,
                ActionPanel, ActionScan, Send, Answer, GoOn
  <2>3. QED
    BY <2>1, <2>2 DEF Next, Leaving, GiveUp, Start, Die, Tick, vars, QueueIsOrderly
<1>5. \A c \in connected' : result'[c] = "none"
  <2>1. CASE Asking
    <3>1. PICK c \in Clients, r \in PossibleRequests : Connect(c, r)
      BY <2>1 DEF Asking
    <3>2. QED
      BY <3>1 DEF Connect, HasAsked, QueueIsOrderly, TypeOK
  <2>2. CASE Leaving
    BY <2>2 DEF Leaving, GiveUp, Conclude, QueueIsOrderly, TypeOK
  <2>3. CASE Send
    BY <2>3 DEF Send, Conclude, QueueIsOrderly, TypeOK
  <2>4. CASE Die
    BY <2>4 DEF Die
  <2>5. CASE UNCHANGED clientVars
    BY <2>5 DEF QueueIsOrderly
  <2>6. QED
    BY <2>1, <2>2, <2>3, <2>4, <2>5
    DEF Next, Serving, Accept, Receive, ChooseMethod, Verify, ActionPanel, ActionScan,
        Working, Start, Tick, vars
<1>6. QED
  BY <1>1, <1>2, <1>3, <1>4, <1>5 DEF QueueIsOrderly

(* Every step keeps requests served as what they are.                      *)
LEMMA StepServed ==
  ASSUME TypeOK, QueueIsOrderly, ServedAsAsked, [Next]_vars
  PROVE  ServedAsAsked'
<1> USE DEF clientVars, memoryVars, historyVars
<1>1. conn # NoClient => conn \in Clients /\ request'[conn] = request[conn]
  BY AskedForGood DEF QueueIsOrderly, TypeOK
<1>2. CASE Asking \/ Leaving \/ Tick \/ UNCHANGED vars
  <2>1. UNCHANGED <<pc, conn, reply, verified, consented>>
    BY <1>2 DEF Asking, Connect, Leaving, GiveUp, Tick, vars
  <2>2. QED
    BY <1>1, <2>1 DEF ServedAsAsked, QueueIsOrderly
<1>3. CASE Receive
  BY <1>3 DEF Receive, RejectAction, AdmitAction, Answer, GoOn, ServedAsAsked
<1>4. CASE ChooseMethod \/ Verify
  BY <1>4 DEF ChooseMethod, Verify, Working, Answer, GoOn, ServedAsAsked
<1>5. CASE ActionPanel \/ ActionScan
  BY <1>5 DEF ActionPanel, ActionScan, Working, Answer, GoOn, ServedAsAsked
<1>6. CASE Accept \/ Send \/ Start \/ Die
  BY <1>6 DEF Accept, Send, Start, Die, ServedAsAsked
<1>7. QED
  BY <1>2, <1>3, <1>4, <1>5, <1>6 DEF Next, Serving

(* No step leaves the lock behind.                                         *)
LEMMA StepLock ==
  ASSUME TypeOK, LockIsNeverLeaked, [Next]_vars
  PROVE  LockIsNeverLeaked'
<1> USE DEF clientVars, memoryVars, historyVars
<1>1. CASE Receive
  BY <1>1 DEF Receive, RejectAction, AdmitAction, Answer, GoOn, LockIsNeverLeaked
<1>2. CASE ChooseMethod \/ Verify \/ ActionPanel \/ ActionScan
  BY <1>2 DEF ChooseMethod, Verify, ActionPanel, ActionScan, Answer, GoOn,
              LockIsNeverLeaked, TypeOK
<1>3. CASE Accept \/ Send \/ Start \/ Die
  BY <1>3 DEF Accept, Send, Start, Die, LockIsNeverLeaked, TypeOK
<1>4. CASE UNCHANGED <<pc, activeRequest>>
  BY <1>4 DEF LockIsNeverLeaked
<1>5. QED
  BY <1>1, <1>2, <1>3, <1>4
  DEF Next, Serving, Asking, Connect, Leaving, GiveUp, Tick, vars

(* Every step keeps the table of nonces within its bound.                  *)
LEMMA StepNonces ==
  ASSUME TypeOK, QueueIsOrderly, NonceTableIsBounded, [Next]_vars
  PROVE  NonceTableIsBounded'
<1> USE DEF clientVars, memoryVars, historyVars
<1>1. conn # NoClient => conn \in Clients /\ request'[conn] = request[conn]
  BY AskedForGood DEF QueueIsOrderly, TypeOK
<1>2. CASE Receive
  <2>1. conn \in Clients /\ UNCHANGED request
    BY <1>2 DEF Receive, TypeOK, QueueIsOrderly
  <2>2. request[conn].nonce \in Nonces
    BY <2>1 DEF TypeOK, Requests
  <2>3. CASE AdmitAction
    BY <1>2, <2>1, <2>2, <2>3, RememberFacts
    DEF Receive, AdmitAction, Answer, GoOn, NonceTableIsBounded, TypeOK
  <2>4. CASE UNCHANGED usedNonces /\ ~AdmitAction
    BY <1>2, <2>4 DEF Receive, RejectAction, Answer, GoOn, NonceTableIsBounded
  <2>5. QED
    BY <1>2, <2>3, <2>4 DEF Receive, RejectAction
<1>3. CASE Die
  <2>1. Cardinality({}) <= NonceLimit
    BY FS_EmptySet, DaemonAssumption
  <2>2. usedNonces' = {} /\ pc' = "down"
    BY <1>3 DEF Die
  <2>3. QED
    BY <2>1, <2>2 DEF NonceTableIsBounded
<1>4. CASE UNCHANGED usedNonces /\ pc' \notin {"action", "actionScan"}
  BY <1>4 DEF NonceTableIsBounded
<1>5. CASE /\ UNCHANGED <<usedNonces, conn>> /\ pc \in {"action", "actionScan"}
  BY <1>1, <1>5 DEF NonceTableIsBounded, QueueIsOrderly
<1>6. QED
  BY <1>2, <1>3, <1>4, <1>5
  DEF Next, Serving, Asking, Connect, Leaving, GiveUp, Accept, ChooseMethod, Verify,
      ActionPanel, ActionScan, Working, Answer, GoOn, Send, Start, Tick, vars

(* No step grants what was not earned.                                     *)
LEMMA StepGrants ==
  ASSUME TypeOK, QueueIsOrderly, ServedAsAsked, GrantsAreEarned, [Next]_vars
  PROVE  GrantsAreEarned'
<1> USE DEF clientVars, memoryVars, historyVars
<1> SUFFICES ASSUME NEW c \in Clients, result'[c] = "granted"
             PROVE  /\ c \in verified'
                    /\ request'[c].kind \in {"sudo", "lock", "auth"}
                    /\ request'[c].kind = "auth" => c \in consented'
  BY DEF GrantsAreEarned
<1>1. verified \subseteq verified' /\ consented \subseteq consented'
  BY DEF Next, Asking, Connect, Leaving, GiveUp, Serving, Accept, Receive, ChooseMethod,
         Verify, ActionPanel, ActionScan, Working, Send, Start, Die, Tick, vars
<1>2. CASE result[c] = "granted"
  <2>1. HasAsked(c)
    BY <1>2 DEF HasAsked
  <2>2. request'[c] = request[c]
    BY <2>1, AskedForGood
  <2>3. QED
    BY <1>1, <1>2, <2>2 DEF GrantsAreEarned
<1>3. CASE result[c] # "granted"
  <2>1. Send /\ conn = c /\ Concluded(reply) = "granted"
    BY <1>3 DEF Next, Asking, Connect, Leaving, GiveUp, Conclude, Serving, Accept, Receive,
                ChooseMethod, Verify, ActionPanel, ActionScan, Working, Send, Start, Die,
                Tick, vars, TypeOK
  <2>2. reply \in {"OK", "APPROVED"}
    BY <2>1, ConcludedFacts DEF TypeOK
  <2>3. QED
    BY <1>1, <2>1, <2>2 DEF ServedAsAsked, Send
<1>4. QED
  BY <1>2, <1>3

(* The initial states satisfy the invariant.                               *)
LEMMA InitIInv == Init => IInv
<1> SUFFICES ASSUME Init PROVE IInv
  OBVIOUS
<1>1. Cardinality({}) <= NonceLimit
  BY FS_EmptySet, DaemonAssumption
<1>2. LockIsNeverLeaked /\ NonceTableIsBounded
  BY <1>1 DEF Init, LockIsNeverLeaked, NonceTableIsBounded
<1>3. QueueIsOrderly
  <2>1. 1..Len(<<>>) = {}
    BY EmptySeq
  <2>2. QED
    BY <2>1 DEF Init, QueueIsOrderly
<1>4. ServedAsAsked /\ GrantsAreEarned
  BY DEF Init, ServedAsAsked, GrantsAreEarned
<1>5. QED
  BY <1>2, <1>3, <1>4, InitTypeOK DEF IInv

(* IInv is an invariant of the daemon, its clients and its restarts.       *)
THEOREM InductiveInvariant == Spec => []IInv
<1>1. IInv /\ [Next]_vars => IInv'
  BY StepTypeOK, StepQueue, StepServed, StepLock, StepNonces, StepGrants DEF IInv
<1>2. QED
  BY <1>1, InitIInv, PTL DEF Spec

(* The variables have their types.                                         *)
THEOREM TypeCorrect == Spec => []TypeOK
<1>1. IInv => TypeOK
  BY DEF IInv
<1>2. QED
  BY <1>1, InductiveInvariant, PTL

(* Nobody is granted but after the owner was recognised for that very      *)
(* request, and an application only after its own panel was approved.      *)
THEOREM EarnedGrants == Spec => []GrantsAreEarned
<1>1. IInv => GrantsAreEarned
  BY DEF IInv
<1>2. QED
  BY <1>1, InductiveInvariant, PTL

(* The lock of _authorize_action is held exactly while an action is being  *)
(* authorised: "ERR busy" cannot become permanent.                         *)
THEOREM LockReleased == Spec => []LockIsNeverLeaked
<1>1. IInv => LockIsNeverLeaked
  BY DEF IInv
<1>2. QED
  BY <1>1, InductiveInvariant, PTL

(* The table of nonces never outgrows its limit.                           *)
THEOREM BoundedNonces == Spec => []NonceTableIsBounded
<1>1. IInv => NonceTableIsBounded
  BY DEF IInv
<1>2. QED
  BY <1>1, InductiveInvariant, PTL

-----------------------------------------------------------------------------
(* Single use within one life of the process.                              *)

(* Before the daemon is first started nothing was admitted.  In its first  *)
(* life, as long as no more nonces were admitted than the table holds, the *)
(* table has them all, and none was admitted twice.                        *)
Complete ==
    Cardinality(everAdmitted) <= NonceLimit =>
        /\ ~reused
        /\ pc # "down" => everAdmitted = usedNonces

FirstLife ==
    /\ starts = 0 => pc = "down" /\ everAdmitted = {} /\ usedNonces = {} /\ ~reused
    /\ starts <= 1 => Complete

(* Admitting a request keeps the table complete.                           *)
LEMMA AdmissionIsComplete ==
  ASSUME IInv, Complete, pc = "recv", AdmitAction
  PROVE  Complete'
<1> DEFINE n == request[conn].nonce
           more == usedNonces \cup {n}
<1>1. conn \in Clients
  BY DEF IInv, TypeOK, QueueIsOrderly
<1>2. n \in Nonces
  BY <1>1 DEF IInv, TypeOK, Requests
<1>3. /\ n \notin usedNonces
      /\ everAdmitted' = everAdmitted \cup {n}
      /\ usedNonces' = Remember(n)
      /\ reused' = (reused \/ n \in everAdmitted)
  BY DEF AdmitAction
<1>4. everAdmitted \subseteq everAdmitted' /\ IsFiniteSet(everAdmitted') /\ NonceLimit \in Nat
  BY <1>2, <1>3, FS_Subset, DaemonAssumption DEF IInv, TypeOK
<1>5. Cardinality(everAdmitted) <= Cardinality(everAdmitted')
  BY <1>4, FS_Subset
<1>6. Cardinality(everAdmitted) \in Nat /\ Cardinality(everAdmitted') \in Nat
  BY <1>4, FS_Subset, FS_CardinalityType
<1>7. SUFFICES ASSUME Cardinality(everAdmitted') <= NonceLimit
               PROVE  ~reused' /\ everAdmitted' = usedNonces'
  BY DEF Complete
<1>8. Cardinality(everAdmitted) <= NonceLimit
  BY <1>4, <1>5, <1>6, <1>7
<1>9. ~reused /\ everAdmitted = usedNonces
  BY <1>8 DEF Complete
<1>10. more = everAdmitted'
  BY <1>3, <1>9
<1>11. ~(Cardinality(more) > NonceLimit)
  BY <1>4, <1>6, <1>7, <1>10
<1>12. Remember(n) = more
  BY <1>11 DEF Remember
<1>13. QED
  BY <1>3, <1>9, <1>10, <1>12

(* Every step keeps it so, up to the second start.                         *)
LEMMA StepFirstLife ==
  ASSUME IInv, FirstLife, [Next]_vars
  PROVE  FirstLife'
<1> USE DEF clientVars, memoryVars, historyVars
<1>1. CASE Receive
  <2>1. pc = "recv" /\ starts' = starts
    BY <1>1 DEF Receive
  <2>2. starts # 0
    BY <2>1 DEF FirstLife
  <2>3. SUFFICES ASSUME starts <= 1
                 PROVE  Complete'
    BY <2>1, <2>2 DEF FirstLife
  <2>4. Complete
    BY <2>3 DEF FirstLife
  <2>5. CASE AdmitAction
    BY <2>1, <2>4, <2>5, AdmissionIsComplete
  <2>6. CASE UNCHANGED <<usedNonces, everAdmitted, reused>>
    BY <2>1, <2>4, <2>6 DEF Complete
  <2>7. QED
    BY <1>1, <2>5, <2>6 DEF Receive, RejectAction
<1>2. CASE Start
  <2>1. starts' = starts + 1 /\ starts \in Nat
    BY <1>2 DEF Start, IInv, TypeOK
  <2>2. SUFFICES ASSUME starts = 0
                 PROVE  Complete'
    BY <2>1 DEF FirstLife
  <2>3. QED
    BY <1>2, <2>2 DEF Start, FirstLife, Complete
<1>3. CASE Die
  BY <1>3 DEF Die, FirstLife, Complete
<1>4. CASE /\ UNCHANGED <<starts, everAdmitted, usedNonces, reused>>
           /\ pc' = "down" => pc = "down"
           /\ pc # "down" \/ pc' = pc
  BY <1>4 DEF FirstLife, Complete
<1>5. QED
  BY <1>1, <1>2, <1>3, <1>4
  DEF Next, Asking, Connect, Leaving, GiveUp, Serving, Accept, ChooseMethod, Verify,
      ActionPanel, ActionScan, Working, Answer, GoOn, Send, Tick, vars

(* No nonce is admitted twice in the first life of the daemon, as long as  *)
(* no more were admitted than its table holds.  Both conditions are        *)
(* needed: run Daemon_replay reuses a nonce across a restart.              *)
THEOREM OneLifeSingleUse == Spec => []SingleUseInOneLife
<1>1. Init => FirstLife
  BY DEF Init, FirstLife, Complete
<1>2. IInv /\ FirstLife /\ [Next]_vars => FirstLife'
  BY StepFirstLife
<1>3. FirstLife => SingleUseInOneLife
  BY DEF FirstLife, Complete, SingleUseInOneLife
<1>4. QED
  BY <1>1, <1>2, <1>3, InductiveInvariant, PTL DEF Spec

-----------------------------------------------------------------------------
(* Refinement of the abstract service.                                     *)

(* The steps that change neither the results, nor the client in hand, nor  *)
(* who was recognised.                                                     *)
LEMMA QuietStep ==
  ASSUME UNCHANGED <<result, conn, verified>>
  PROVE  UNCHANGED Service!serviceVars
  BY DEF Service!serviceVars

(* Refusing a client is a step of the service.                             *)
LEMMA RefusingStep ==
  ASSUME TypeOK, NEW c \in Clients, NEW res \in Results \ {"none", "granted"},
         result[c] = "none", result' = [result EXCEPT ![c] = res],
         UNCHANGED verified,
         conn' = conn \/ (conn = c /\ conn' = NoClient)
  PROVE  Service!ServiceNext
<1>1. Service!Refuse(c)
  BY DEF Service!Refuse, TypeOK
<1>2. QED
  BY <1>1 DEF Service!ServiceNext

(* So is granting the one being served, once recognised.                   *)
LEMMA GrantingStep ==
  ASSUME TypeOK, NEW c \in Clients, conn = c, c \in verified,
         result[c] = "none", result' = [result EXCEPT ![c] = "granted"],
         UNCHANGED verified, conn' = NoClient
  PROVE  Service!ServiceNext
<1>1. Service!Grant(c)
  BY DEF Service!Grant, TypeOK
<1>2. QED
  BY <1>1 DEF Service!ServiceNext

(* Every step of the daemon or of a client is a step of the service or     *)
(* leaves it alone.                                                        *)
LEMMA StepService ==
  ASSUME IInv, [Next]_vars
  PROVE  [Service!ServiceNext]_(Service!serviceVars)
<1> USE DEF clientVars, memoryVars, historyVars
<1> TypeOK /\ QueueIsOrderly
  BY DEF IInv
<1>1. CASE Asking
  <2>1. PICK c \in Clients, r \in PossibleRequests : Connect(c, r)
    BY <1>1 DEF Asking
  <2>2. result[c] = "none" /\ UNCHANGED <<conn, verified>>
    BY <2>1 DEF Connect, HasAsked
  <2>3. CASE UNCHANGED result
    BY <2>2, <2>3, QuietStep
  <2>4. CASE result' = [result EXCEPT ![c] = "unavailable"]
    BY <2>2, <2>4, RefusingStep DEF Results
  <2>5. QED
    BY <2>1, <2>3, <2>4 DEF Connect
<1>2. CASE Leaving
  <2>1. PICK c \in Clients : GiveUp(c)
    BY <1>2 DEF Leaving
  <2>2. result[c] = "none" /\ UNCHANGED <<conn, verified>>
    BY <2>1 DEF GiveUp, QueueIsOrderly
  <2>3. PICK res \in {"timedOut", "unavailable"} : result' = [result EXCEPT ![c] = res]
    BY <2>1 DEF GiveUp, Conclude
  <2>4. QED
    BY <2>2, <2>3, RefusingStep DEF Results
<1>3. CASE Accept
  <2>1. Head(backlog) \in Clients /\ conn = NoClient
    BY <1>3 DEF Accept, TypeOK, QueueIsOrderly
  <2>2. Service!Serve(Head(backlog))
    BY <1>3, <2>1 DEF Accept, Service!Serve
  <2>3. QED
    BY <2>1, <2>2 DEF Service!ServiceNext
<1>4. CASE Receive
  <2>1. UNCHANGED <<result, verified>> /\ (conn' = conn \/ conn' = NoClient)
    BY <1>4 DEF Receive
  <2>2. CASE conn' = conn
    BY <2>1, <2>2, QuietStep
  <2>3. CASE conn' = NoClient
    BY <2>1, <2>3 DEF Service!Drop, Service!ServiceNext
  <2>4. QED
    BY <2>1, <2>2, <2>3
<1>5. CASE ChooseMethod \/ Verify \/ ActionPanel \/ ActionScan
  <2>1. UNCHANGED <<result, conn>> /\ conn \in Clients
    BY <1>5 DEF ChooseMethod, Verify, ActionPanel, ActionScan, Working, TypeOK,
                QueueIsOrderly
  <2>2. verified' = verified \/ verified' = verified \cup {conn}
    BY <1>5 DEF ChooseMethod, Verify, ActionPanel, ActionScan
  <2>3. CASE verified' = verified
    BY <2>1, <2>3, QuietStep
  <2>4. CASE verified' = verified \cup {conn}
    <3>1. Service!Recognise(conn)
      BY <2>1, <2>4 DEF Service!Recognise
    <3>2. QED
      BY <2>1, <3>1 DEF Service!ServiceNext
  <2>5. QED
    BY <2>2, <2>3, <2>4
<1>6. CASE Send
  <2>1. conn \in Clients /\ conn' = NoClient /\ UNCHANGED verified
    BY <1>6 DEF Send, TypeOK, QueueIsOrderly
  <2>2. CASE conn \notin connected
    BY <1>6, <2>1, <2>2 DEF Send, Service!Drop, Service!ServiceNext
  <2>3. CASE conn \in connected
    <3>1. result[conn] = "none" /\ result' = [result EXCEPT ![conn] = Concluded(reply)]
      BY <1>6, <2>3 DEF Send, Conclude, QueueIsOrderly
    <3>2. Concluded(reply) \in Results \ {"none"}
      BY ConcludedFacts DEF TypeOK
    <3>3. CASE Concluded(reply) = "granted"
      <4>1. conn \in verified
        BY <3>3, ConcludedFacts DEF IInv, TypeOK, ServedAsAsked
      <4>2. QED
        BY <2>1, <3>1, <3>3, <4>1, GrantingStep
    <3>4. CASE Concluded(reply) # "granted"
      BY <2>1, <3>1, <3>2, <3>4, RefusingStep
    <3>5. QED
      BY <3>3, <3>4
  <2>4. QED
    BY <2>2, <2>3
<1>7. CASE Die
  <2> DEFINE gone == connected
  <2>1. conn' = NoClient /\ UNCHANGED verified
    BY <1>7 DEF Die
  <2>2. result' = [c \in Clients |-> IF c \in gone THEN "unavailable" ELSE result[c]]
    BY <1>7 DEF Die
  <2>3. gone \subseteq Clients /\ \A c \in gone : result[c] = "none"
    BY DEF TypeOK, QueueIsOrderly
  <2>4. Service!Die
    BY <2>1, <2>2, <2>3 DEF Service!Die
  <2>5. QED
    BY <2>4 DEF Service!ServiceNext
<1>8. CASE Start \/ Tick \/ UNCHANGED vars
  BY <1>8, QuietStep DEF Start, Tick, vars
<1>9. QED
  BY <1>1, <1>2, <1>3, <1>4, <1>5, <1>6, <1>7, <1>8 DEF Next, Serving

(* The daemon implements the abstract service: one client is served at a   *)
(* time, a grant goes only to a client recognised while it was served, and *)
(* nobody is answered twice.                                               *)
THEOREM DaemonImplementsService == Spec => ImplementsService
<1>1. Init => Service!ServiceInit
  BY DEF Init, Service!ServiceInit
<1>2. IInv /\ [Next]_vars => [Service!ServiceNext]_(Service!serviceVars)
  BY StepService
<1>3. QED
  BY <1>1, <1>2, InductiveInvariant, PTL
  DEF Spec, ImplementsService, Service!ServiceSpec
=============================================================================
