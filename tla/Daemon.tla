------------------------------- MODULE Daemon -------------------------------
(***************************************************************************)
(* The recognition daemon (faceid/daemon.py): the serial accept loop, the  *)
(* dispatch of one request, the choice of method, and the application      *)
(* authorisation with its nonces, expiry and lock.  Around it, its         *)
(* clients: the PAM module (sudo), the menu-bar app's verify_client (the   *)
(* lock screen), applications through FaceKeyKit, and programs that ping   *)
(* it, send it junk or connect and say nothing.                            *)
(*                                                                         *)
(* A scan of the face is one step here (FaceScan is its inside): only its  *)
(* verdict matters to the loop.  A client makes one request, sent when it  *)
(* connects; it may give up at any time while it waits (PAM after 120 s,   *)
(* verify_client after 120 s, FaceKeyKit after 125 s), and the daemon does *)
(* not notice until it answers.                                            *)
(***************************************************************************)
EXTENDS Naturals, Sequences, FiniteSets

CONSTANTS
    Clients, NoClient,
    Nonces,
    NonceLimit,     \* accepted nonces kept before the table is cleared (2048)
    Backlog,        \* connections the kernel queues (listen(4))
    MaxLife,        \* longest validity of a request (120 s)
    MaxNow,         \* bound on the clock
    MaxStarts       \* bound on how often the daemon is started

ASSUME DaemonAssumption ==
    /\ NoClient \notin Clients
    /\ IsFiniteSet(Nonces) /\ Nonces # {}
    /\ NonceLimit \in Nat \ {0}
    /\ Backlog \in Nat \ {0}
    /\ MaxLife \in Nat /\ MaxNow \in Nat /\ MaxStarts \in Nat

VARIABLES
    now,            \* time.time(), coarsely
    starts,         \* times the daemon was started
    \* Clients.
    request,        \* [kind, nonce, expires] of each client
    result,         \* what each client concluded; "none" while it waits
    connected,      \* clients whose socket is open
    \* The kernel's and the daemon's state.
    backlog,        \* connections not accepted yet
    pc,             \* where the daemon's only thread is
    conn,           \* the connection it handles
    reply,          \* the response it is about to send
    usedNonces,
    activeRequest,  \* the lock _active_request is held
    \* History, read by the properties only.
    verified,       \* clients for whom a scan or Touch ID succeeded
    consented,      \* clients whose action panel said APPROVE
    everAdmitted,   \* nonces of the requests admitted since the beginning
    reused          \* a nonce was admitted a second time

clientVars == <<request, result, connected>>
memoryVars == <<usedNonces, activeRequest>>
historyVars == <<verified, consented, everAdmitted, reused>>
vars == <<now, starts, clientVars, backlog, pc, conn, reply, memoryVars, historyVars>>

Kinds == {"sudo", "lock", "auth", "badAuth", "ping", "junk", "silent"}
Requests == [kind : Kinds, nonce : Nonces, expires : Nat]
Replies == {"", "OK", "FAIL", "PONG", "APPROVED", "REJECTED", "CANCELLED",
            "ERR malformed", "ERR replay", "ERR expiry", "ERR busy",
            "ERR unavailable", "ERR bad-command", "ERR exception"}
Results == {"none", "granted", "denied", "unavailable", "timedOut", "fallback"}

TypeOK ==
    /\ now \in Nat /\ starts \in Nat
    /\ request \in [Clients -> Requests]
    /\ result \in [Clients -> Results]
    /\ connected \subseteq Clients
    /\ backlog \in Seq(Clients)
    /\ pc \in {"down", "accept", "recv", "choose", "scan", "touch", "action",
               "actionScan", "send"}
    /\ conn \in Clients \cup {NoClient}
    /\ reply \in Replies
    /\ usedNonces \subseteq Nonces
    /\ activeRequest \in BOOLEAN
    /\ verified \subseteq Clients /\ consented \subseteq Clients
    /\ everAdmitted \subseteq Nonces
    /\ reused \in BOOLEAN

Init ==
    /\ now = 0 /\ starts = 0
    /\ request = [c \in Clients |->
                    [kind |-> "silent", nonce |-> CHOOSE n \in Nonces : TRUE, expires |-> 0]]
    /\ result = [c \in Clients |-> "none"]
    /\ connected = {}
    /\ backlog = <<>>
    /\ pc = "down" /\ conn = NoClient /\ reply = ""
    /\ usedNonces = {} /\ activeRequest = FALSE
    /\ verified = {} /\ consented = {}
    /\ everAdmitted = {} /\ reused = FALSE

-----------------------------------------------------------------------------
(* Clients.                                                                *)

HasAsked(c) == c \in connected \/ result[c] # "none"

Conclude(c, res) ==
    /\ result' = [result EXCEPT ![c] = res]
    /\ connected' = connected \ {c}

(* connect(2) and the request: refused when nobody listens or the queue of *)
(* the socket is full.                                                     *)
Connect(c, r) ==
    /\ ~HasAsked(c)
    /\ request' = [request EXCEPT ![c] = r]
    /\ IF pc = "down" \/ Len(backlog) >= Backlog
       THEN /\ result' = [result EXCEPT ![c] = "unavailable"]
            /\ UNCHANGED <<connected, backlog>>
       ELSE /\ connected' = connected \cup {c}
            /\ backlog' = Append(backlog, c)
            /\ UNCHANGED result
    /\ UNCHANGED <<now, starts, pc, conn, reply, memoryVars, historyVars>>

(* The client's receive times out and it closes its socket.                *)
GiveUp(c) ==
    /\ c \in connected
    /\ Conclude(c, IF request[c].kind \in {"auth", "badAuth"} THEN "timedOut" ELSE "unavailable")
    /\ UNCHANGED <<now, starts, request, backlog, pc, conn, reply, memoryVars, historyVars>>

(* What a client makes of a response: pam_faceid.c and verify_client.py    *)
(* for the verdicts, FaceKeyKit for the rest.                              *)
Concluded_AnyNonError(r) ==
    CASE r \in {"OK", "APPROVED", "PONG"} -> "granted"
      [] r \in {"FAIL", "REJECTED", "CANCELLED"} -> "denied"
      [] r = "ERR expiry" -> "timedOut"
      [] r \in {"ERR busy", "ERR replay", "ERR malformed"} -> "fallback"
      [] OTHER -> "unavailable"

Concluded(r) ==
    CASE r \in {"OK", "APPROVED"} -> "granted"
      [] r \in {"FAIL", "REJECTED", "CANCELLED"} -> "denied"
      [] r = "ERR expiry" -> "timedOut"
      [] r \in {"ERR busy", "ERR replay", "ERR malformed"} -> "fallback"
      [] OTHER -> "unavailable"

-----------------------------------------------------------------------------
(* The accept loop.                                                        *)

Accept ==
    /\ pc = "accept" /\ backlog # <<>>
    /\ conn' = Head(backlog)
    /\ backlog' = Tail(backlog)
    /\ pc' = "recv"
    /\ UNCHANGED <<now, starts, clientVars, reply, memoryVars, historyVars>>

(* The thread goes on with the response r, or at the place p.              *)
Answer(r) == pc' = "send" /\ reply' = r
GoOn(p) == pc' = p /\ UNCHANGED reply

(* conn.sendall and conn.close(): a client that has gone gets nothing, and *)
(* the error is swallowed.                                                 *)
Send ==
    /\ pc = "send"
    /\ IF conn \in connected
       THEN Conclude(conn, Concluded(reply))
       ELSE UNCHANGED <<result, connected>>
    /\ pc' = "accept" /\ conn' = NoClient /\ reply' = ""
    /\ UNCHANGED <<now, starts, request, backlog, memoryVars, historyVars>>

-----------------------------------------------------------------------------
(* _authorize_action, up to the panel.                                     *)

(* The table after one more nonce: beyond the limit only that one is kept. *)
Remember(n) ==
    LET more == usedNonces \cup {n}
    IN  IF Cardinality(more) > NonceLimit THEN {n} ELSE more

Expired(r) == r.expires < now \/ r.expires > now + MaxLife

RejectAction ==
    LET r == request[conn]
    IN  /\ UNCHANGED <<memoryVars, everAdmitted, reused>>
        /\ \/ r.kind = "badAuth" /\ Answer("ERR malformed")
           \/ r.kind = "auth" /\ r.nonce \in usedNonces /\ Answer("ERR replay")
           \/ /\ r.kind = "auth" /\ r.nonce \notin usedNonces
              /\ Expired(r) /\ Answer("ERR expiry")

AdmitAction_NoReplayCheck ==
    LET r == request[conn]
    IN  /\ r.kind = "auth" /\ ~Expired(r)
        /\ usedNonces' = Remember(r.nonce)
        /\ everAdmitted' = everAdmitted \cup {r.nonce}
        /\ reused' = (reused \/ r.nonce \in everAdmitted)
        /\ activeRequest' = TRUE /\ GoOn("action")

AdmitAction ==
    LET r == request[conn]
    IN  /\ r.kind = "auth" /\ r.nonce \notin usedNonces /\ ~Expired(r)
        /\ usedNonces' = Remember(r.nonce)
        /\ everAdmitted' = everAdmitted \cup {r.nonce}
        /\ reused' = (reused \/ r.nonce \in everAdmitted)
        /\ IF activeRequest
           THEN UNCHANGED activeRequest /\ Answer("ERR busy")
           ELSE \/ activeRequest' = TRUE /\ GoOn("action")
                \/ activeRequest' = FALSE /\ Answer("ERR unavailable")  \* no panel

(* handle(): read the request and dispatch it.  A client that says nothing *)
(* holds the daemon until the 120 s receive timeout, or until it leaves.   *)
Receive_NoTimeout ==
    /\ pc = "recv"
    /\ UNCHANGED <<now, starts, clientVars, backlog, verified, consented>>
    /\ LET k == request[conn].kind
       IN  \/ /\ k \in {"auth", "badAuth"}
              /\ RejectAction \/ AdmitAction
              /\ UNCHANGED conn
           \/ /\ k \notin {"auth", "badAuth"}
              /\ UNCHANGED <<memoryVars, everAdmitted, reused>>
              /\ \/ k = "sudo" /\ GoOn("choose") /\ UNCHANGED conn
                 \/ k = "lock" /\ GoOn("scan") /\ UNCHANGED conn
                 \/ k = "ping" /\ Answer("PONG") /\ UNCHANGED conn
                 \/ k = "junk" /\ Answer("ERR bad-command") /\ UNCHANGED conn
                 \/ k = "silent" /\ conn \notin connected
                       /\ GoOn("accept") /\ conn' = NoClient

Receive ==
    /\ pc = "recv"
    /\ UNCHANGED <<now, starts, clientVars, backlog, verified, consented>>
    /\ LET k == request[conn].kind
       IN  \/ /\ k \in {"auth", "badAuth"}
              /\ RejectAction \/ AdmitAction
              /\ UNCHANGED conn
           \/ /\ k \notin {"auth", "badAuth"}
              /\ UNCHANGED <<memoryVars, everAdmitted, reused>>
              /\ \/ k = "sudo" /\ GoOn("choose") /\ UNCHANGED conn
                 \/ k = "lock" /\ GoOn("scan") /\ UNCHANGED conn
                 \/ k = "ping" /\ Answer("PONG") /\ UNCHANGED conn
                 \/ k = "junk" /\ Answer("ERR bad-command") /\ UNCHANGED conn
                 \/ k = "silent" /\ Answer("ERR exception") /\ UNCHANGED conn
                 \/ k = "silent" /\ conn \notin connected
                       /\ GoOn("accept") /\ conn' = NoClient

-----------------------------------------------------------------------------
(* Recognition.  An exception in any of these becomes "ERR exception".     *)

Working == UNCHANGED <<now, starts, clientVars, backlog, conn, usedNonces,
                       everAdmitted, reused>>

ChooseMethod ==
    /\ pc = "choose"
    /\ \/ GoOn("scan") \/ GoOn("touch") \/ Answer("FAIL")
    /\ Working /\ UNCHANGED <<activeRequest, verified, consented>>

(* verify_face / verify_lock and verify_touch for a VERIFY request.        *)
Verify ==
    /\ pc \in {"scan", "touch"}
    /\ \/ Answer("OK") /\ verified' = verified \cup {conn}
       \/ (Answer("FAIL") \/ Answer("ERR exception")) /\ UNCHANGED verified
    /\ Working /\ UNCHANGED <<activeRequest, consented>>

(* The panel of an application request.  The lock is released by the       *)
(* "finally", whatever ends the request.                                   *)
ActionPanel_LeaksLock ==
    /\ pc = "action"
    /\ \/ GoOn("actionScan") /\ consented' = consented \cup {conn}
           /\ UNCHANGED activeRequest
       \/ /\ Answer("CANCELLED") \/ Answer("ERR exception")
          /\ UNCHANGED activeRequest
          /\ UNCHANGED consented
    /\ Working /\ UNCHANGED verified

ActionPanel_SkipsScan ==
    /\ pc = "action"
    /\ \/ Answer("APPROVED") /\ consented' = consented \cup {conn}
           /\ activeRequest' = FALSE
       \/ /\ Answer("CANCELLED") \/ Answer("ERR exception")
          /\ activeRequest' = FALSE
          /\ UNCHANGED consented
    /\ Working /\ UNCHANGED verified

ActionPanel ==
    /\ pc = "action"
    /\ \/ GoOn("actionScan") /\ consented' = consented \cup {conn}
           /\ UNCHANGED activeRequest
       \/ /\ Answer("CANCELLED") \/ Answer("ERR exception")
          /\ activeRequest' = FALSE
          /\ UNCHANGED consented
    /\ Working /\ UNCHANGED verified

ActionScan ==
    /\ pc = "actionScan"
    /\ activeRequest' = FALSE
    /\ \/ Answer("APPROVED") /\ verified' = verified \cup {conn}
       \/ (Answer("REJECTED") \/ Answer("ERR exception")) /\ UNCHANGED verified
    /\ Working /\ UNCHANGED consented

-----------------------------------------------------------------------------
(* The process: started by the app or by the user, stopped or killed at    *)
(* any moment (but for its last life, within the bound MaxStarts).  The    *)
(* kernel closes its connections, which every waiting client reads as the  *)
(* end of the file.                                                        *)

Start ==
    /\ pc = "down" /\ starts < MaxStarts
    /\ starts' = starts + 1
    /\ pc' = "accept"
    /\ UNCHANGED <<now, clientVars, backlog, conn, reply, memoryVars, historyVars>>

Die ==
    /\ pc # "down" /\ starts < MaxStarts
    /\ pc' = "down" /\ conn' = NoClient /\ reply' = "" /\ backlog' = <<>>
    /\ usedNonces' = {} /\ activeRequest' = FALSE
    /\ connected' = {}
    /\ result' = [c \in Clients |-> IF c \in connected THEN "unavailable" ELSE result[c]]
    /\ UNCHANGED <<now, starts, request, historyVars>>

Tick ==
    /\ now < MaxNow
    /\ now' = now + 1
    /\ UNCHANGED <<starts, clientVars, backlog, pc, conn, reply, memoryVars, historyVars>>

-----------------------------------------------------------------------------
(* Requests a client may make at this moment: an application chooses its   *)
(* nonce and how long the request is valid, beyond the maximum too.        *)
PossibleRequests ==
    [kind : Kinds \ {"auth"}, nonce : {CHOOSE n \in Nonces : TRUE}, expires : {0}]
      \cup [kind : {"auth"}, nonce : Nonces, expires : now..(now + MaxLife + 1)]

Asking == \E c \in Clients : \E r \in PossibleRequests : Connect(c, r)
Leaving == \E c \in Clients : GiveUp(c)
Serving == Accept \/ Receive \/ ChooseMethod \/ Verify \/ ActionPanel \/ ActionScan \/ Send

Next == Asking \/ Leaving \/ Serving \/ Start \/ Die \/ Tick

Spec == Init /\ [][Next]_vars

(* The thread of the daemon always goes on: every wait in it has a         *)
(* timeout (120 s to receive, 90 s for the panels, 60 s for Touch ID, the  *)
(* budget of a scan).  Nothing restarts a daemon that died but its user.   *)
FairSpec == Spec /\ WF_vars(Serving)

-----------------------------------------------------------------------------
(* Properties.                                                             *)

(* A client is granted only when the owner was recognised for it, and an   *)
(* application's request only when its own panel was approved as well.     *)
GrantsAreEarned ==
    \A c \in Clients : result[c] = "granted" =>
        /\ c \in verified
        /\ request[c].kind \in {"sudo", "lock", "auth"}
        /\ request[c].kind = "auth" => c \in consented

(* The lock is held exactly while an action is being authorised: no way    *)
(* out of _authorize_action leaves it behind, so no later request can be   *)
(* refused for ever.                                                       *)
LockIsNeverLeaked == activeRequest <=> pc \in {"action", "actionScan"}

(* The table of nonces is bounded, and the request in hand is in it.       *)
NonceTableIsBounded ==
    /\ Cardinality(usedNonces) <= NonceLimit
    /\ pc \in {"action", "actionScan"} => request[conn].nonce \in usedNonces

(* What the three above rest on.  The thread holds a connection exactly    *)
(* while it serves one, the queue is of clients that asked, and a client   *)
(* whose socket is open has no result yet.                                 *)
QueueIsOrderly ==
    /\ conn = NoClient <=> pc \in {"down", "accept"}
    /\ conn # NoClient => HasAsked(conn)
    /\ pc = "down" => backlog = <<>>
    /\ \A i \in 1..Len(backlog) : HasAsked(backlog[i])
    /\ \A c \in connected : result[c] = "none"

(* A request is served as what it is, and an approving reply is on its way *)
(* only to a client the owner was recognised for.                          *)
ServedAsAsked ==
    /\ pc \in {"action", "actionScan"} => request[conn].kind = "auth"
    /\ pc = "actionScan" => conn \in consented
    /\ pc \in {"choose", "scan", "touch"} => request[conn].kind \in {"sudo", "lock"}
    /\ reply \in {"OK", "APPROVED"} => pc = "send" /\ conn \in verified
    /\ reply = "OK" => request[conn].kind \in {"sudo", "lock"}
    /\ reply = "APPROVED" => request[conn].kind = "auth" /\ conn \in consented

(* The inductive invariant: what every step of the daemon, of its clients  *)
(* and of its restarts preserves.                                          *)
IInv ==
    /\ TypeOK
    /\ LockIsNeverLeaked
    /\ NonceTableIsBounded
    /\ QueueIsOrderly
    /\ ServedAsAsked
    /\ GrantsAreEarned

(* What the table of nonces can keep of that: while the daemon lives, and  *)
(* has not admitted more nonces than the table holds, none is admitted     *)
(* twice.                                                                  *)
SingleUseInOneLife ==
    starts <= 1 /\ Cardinality(everAdmitted) <= NonceLimit => ~reused

(* Every client that waits gets an answer, whoever is before it in the     *)
(* queue and whatever they do.                                             *)
EverybodyIsAnswered == \A c \in Clients : (c \in connected) ~> (c \notin connected)

Service == INSTANCE AuthService WITH
    serving <- conn,
    recognised <- verified,
    answer <- [c \in Clients |->
                 CASE result[c] = "none" -> "none"
                   [] result[c] = "granted" -> "granted"
                   [] OTHER -> "refused"]

(* The daemon and its clients implement the abstract service.              *)
ImplementsService == Service!ServiceSpec
=============================================================================
