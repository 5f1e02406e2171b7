----------------------------- MODULE AuthService -----------------------------
(***************************************************************************)
(* What the daemon promises to the programs that ask it to recognise the   *)
(* owner of the Mac: one request is served at a time, a client is granted  *)
(* only after the owner was recognised for that very client while it was   *)
(* being served, and it gets one answer.  Daemon implements it.            *)
(***************************************************************************)
CONSTANTS Clients, NoClient      \* NoClient is not one of the clients

VARIABLES
    serving,        \* the client being served, or NoClient
    recognised,     \* clients for whom the owner was recognised
    answer          \* what each client was told: "none" until then

serviceVars == <<serving, recognised, answer>>

ServiceInit ==
    /\ serving = NoClient
    /\ recognised = {}
    /\ answer = [c \in Clients |-> "none"]

Serve(c) ==
    /\ serving = NoClient
    /\ serving' = c
    /\ UNCHANGED <<recognised, answer>>

Recognise(c) ==
    /\ serving = c
    /\ recognised' = recognised \cup {c}
    /\ UNCHANGED <<serving, answer>>

Grant(c) ==
    /\ serving = c /\ c \in recognised
    /\ answer[c] = "none"
    /\ answer' = [answer EXCEPT ![c] = "granted"]
    /\ serving' = NoClient
    /\ UNCHANGED recognised

(* A client is refused while it is served, or leaves without an answer     *)
(* (the connection was refused, it timed out) whoever is being served.     *)
Refuse(c) ==
    /\ answer[c] = "none"
    /\ answer' = [answer EXCEPT ![c] = "refused"]
    /\ \/ serving' = serving
       \/ serving = c /\ serving' = NoClient
    /\ UNCHANGED recognised

(* The service drops the client it is serving: the client has left.        *)
Drop ==
    /\ serving' = NoClient
    /\ UNCHANGED <<recognised, answer>>

(* The service dies: nobody is served, and everybody who was waiting is    *)
(* refused at once.                                                        *)
Die ==
    /\ serving' = NoClient
    /\ \E gone \in SUBSET {c \in Clients : answer[c] = "none"} :
          answer' = [c \in Clients |-> IF c \in gone THEN "refused" ELSE answer[c]]
    /\ UNCHANGED recognised

ServiceNext ==
    \/ \E c \in Clients : Serve(c) \/ Recognise(c) \/ Grant(c) \/ Refuse(c)
    \/ Drop
    \/ Die

ServiceSpec == ServiceInit /\ [][ServiceNext]_serviceVars
=============================================================================
