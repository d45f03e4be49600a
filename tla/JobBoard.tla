------------------------------- MODULE JobBoard -------------------------------
(***************************************************************************)
(* What a job queue promises to the code that enqueues jobs and waits for  *)
(* them, without partitions, claims, channels and keys: there is a board   *)
(* on which the status of a job is posted once the job's owner (the        *)
(* callback) accepted its success, and a client that asks is told what is  *)
(* or was on the board, or goes away.                                      *)
(***************************************************************************)
CONSTANTS
    Jobs,
    Clients,
    Statuses,
    HasOwner,   \* whether somebody has to accept a success
    None

VARIABLES
    enqueued,
    accepted,   \* the jobs whose success was accepted
    board,      \* the statuses that can be read
    asked,      \* the job each client asks about, or None
    answer      \* what the client is or will be told, or None

boardVars == <<enqueued, accepted, board, asked, answer>>

Posted == [job : Jobs, status : Statuses]

BoardInit ==
    /\ enqueued = {} /\ accepted = {} /\ board = {}
    /\ asked = [c \in Clients |-> None]
    /\ answer = [c \in Clients |-> None]

Enqueue(j) ==
    /\ j \notin enqueued
    /\ enqueued' = enqueued \cup {j}
    /\ UNCHANGED <<accepted, board, asked, answer>>

Accept(j) ==
    /\ j \in enqueued
    /\ accepted' = accepted \cup {j}
    /\ UNCHANGED <<enqueued, board, asked, answer>>

(* A status replaces what the board said of the job, and clients that wait *)
(* for it without an answer may have it right away.                        *)
Post(j, s) ==
    /\ j \in enqueued
    /\ HasOwner /\ s = "success" => j \in accepted
    /\ board' = {p \in board : p.job # j} \cup {[job |-> j, status |-> s]}
    /\ answer' \in [Clients -> Statuses \cup {None}]
    /\ \A c \in Clients : answer'[c] # answer[c] => /\ asked[c] = j
                                                    /\ answer[c] = None
                                                    /\ answer'[c] = s
    /\ UNCHANGED <<enqueued, accepted, asked>>

TakeDown ==
    /\ board' \subseteq board
    /\ UNCHANGED <<enqueued, accepted, asked, answer>>

Ask(c, j) ==
    /\ asked[c] = None /\ j \in enqueued
    /\ asked' = [asked EXCEPT ![c] = j]
    /\ UNCHANGED <<enqueued, accepted, board, answer>>

Tell(c) ==
    /\ \E p \in board : /\ p.job = asked[c]
                        /\ answer' = [answer EXCEPT ![c] = p.status]
    /\ UNCHANGED <<enqueued, accepted, board, asked>>

(* A client that was told, gave up or died; it may take its result down. *)
Leave(c) ==
    /\ board' \subseteq board
    /\ asked' = [asked EXCEPT ![c] = None]
    /\ answer' = [answer EXCEPT ![c] = None]
    /\ UNCHANGED <<enqueued, accepted>>

BoardNext ==
    \/ \E j \in Jobs : Enqueue(j) \/ Accept(j) \/ \E s \in Statuses : Post(j, s)
    \/ TakeDown
    \/ \E c \in Clients : Tell(c) \/ Leave(c) \/ \E j \in Jobs : Ask(c, j)

BoardSpec == BoardInit /\ [][BoardNext]_boardVars
=============================================================================
