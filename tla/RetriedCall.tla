---------------------------- MODULE RetriedCall ----------------------------
(***************************************************************************)
(* Clients that call a data processing app over TLS and repeat a call when *)
(* the connection fails (client.py), and the app that serves them one at a *)
(* time (the main loop of code_eval_01/main.py).  The client sends the     *)
(* number of its lines and then all of them in one record; the app reads   *)
(* that many times, ReadSize bytes at most each time.                      *)
(*                                                                         *)
(* What happens inside a session is ConsumerApp's subject: here the token  *)
(* loop is one step and a copy is its counter; every usage condition is    *)
(* met (CheckConditionPhase of UsagePolicy, which is the same code here).  *)
(* charged and owing are history variables.                                *)
(***************************************************************************)
EXTENDS Integers, SequencesExt, FiniteSetsExt

CONSTANTS
    Clients, Data,
    Calls,              \* the token files: sequences of tokens
    ReadSize,           \* how much recv returns at most
    Uses,               \* counter of a copy as it is provided
    Arity,              \* of process_data
    RetryMax,           \* RETRY_MAX
    MaxCrashes,         \* bound of the crashes of the app
    Nobody

\* A token and where in the client's record its line ends.
Tokens == [data : Data, arg : Nat, end : Nat]
InOrder(ts) == \A i, j \in DOMAIN ts : i < j => ts[i].end < ts[j].end
ASSUME CallAssumption == Calls \subseteq {ts \in Seq(Tokens) : InOrder(ts)}
ASSUME NumberAssumption ==
    {ReadSize, Uses, RetryMax} \subseteq Nat \ {0} /\ {Arity, MaxCrashes} \subseteq Nat
ASSUME NobodyAssumption == Nobody \notin Clients

VARIABLES
    call,               \* each client's token file
    link,               \* where each client is with its attempt
    attempt,            \* its attempts that failed
    said,               \* whether "Session completed" is in its stream
    server, conn,       \* where the app's loop is, the client it serves
    wire, left, got,    \* bytes not read yet, reads to come, bytes read
    session,            \* provided_data_uc
    file,               \* the copies on disk
    crashes,
    charged,            \* sessions processed for each client since its last reset
    owing               \* clients whose last attempt is charged in memory only

client == <<call, link, attempt, said>>
socket == <<wire, left, got>>
history == <<charged, owing>>
vars == <<client, server, conn, socket, session, file, crashes, history>>

Absent == -2
Torn == -1
TypeOfFile == {Absent, Torn} \cup 0..Uses

Size(ts) == IF ts = <<>> THEN 0 ELSE Last(ts).end

Init ==
    /\ call \in [Clients -> Calls] /\ link = [c \in Clients |-> "ready"]
    /\ attempt = [c \in Clients |-> 0] /\ said = [c \in Clients |-> FALSE]
    /\ server = "accept" /\ conn = Nobody
    /\ wire = 0 /\ left = 0 /\ got = 0 /\ session = <<>>
    /\ file = [d \in Data |-> Absent] /\ crashes = 0
    /\ charged = [c \in Clients |-> 0]
    /\ owing = {}
-----------------------------------------------------------------------------
\* Mutant: RETRY_MAX attempts after the first.
RetryOnceMore(c) ==
    /\ attempt' = [attempt EXCEPT ![c] = @ + 1]
    /\ link' = [link EXCEPT ![c] = IF attempt[c] < RetryMax THEN "ready" ELSE "failed"]

\* run_with_retry: an attempt that raises is followed by another, up to RETRY_MAX.
Retry(c) ==
    /\ attempt' = [attempt EXCEPT ![c] = @ + 1]
    /\ link' = [link EXCEPT ![c] = IF attempt[c] + 1 < RetryMax THEN "ready" ELSE "failed"]

\* _attempt: connect, which returns when the app has taken the connection.
Connect(c) ==
    /\ link[c] = "ready" /\ server # "down"
    /\ link' = [link EXCEPT ![c] = "queued"]
    /\ said' = [said EXCEPT ![c] = FALSE] /\ owing' = owing \ {c}
    /\ UNCHANGED <<call, attempt, server, conn, socket, session, file, crashes, charged>>

Refused(c) ==
    /\ link[c] = "ready" /\ server = "down"
    /\ Retry(c)
    /\ UNCHANGED <<call, said, server, conn, socket, session, file, crashes, history>>

\* Mutant: the attempt fails unless the session was completed.
EndedCompleted(c) ==
    /\ link[c] = "closed"
    /\ IF said[c] THEN link' = [link EXCEPT ![c] = "done"] /\ UNCHANGED attempt
                  ELSE Retry(c)
    /\ UNCHANGED <<call, said, server, conn, socket, session, file, crashes, history>>

\* An empty recv ends the attempt, whatever was received before.
Ended(c) ==
    /\ link[c] = "closed"
    /\ link' = [link EXCEPT ![c] = "done"]
    /\ UNCHANGED <<call, attempt, said, server, conn, socket, session, file, crashes, history>>

Reset(c) ==
    /\ link[c] = "reset"
    /\ Retry(c)
    /\ charged' = [charged EXCEPT ![c] = 0]
    /\ UNCHANGED <<call, said, server, conn, socket, session, file, crashes, owing>>
-----------------------------------------------------------------------------
\* Mutant: the number of lines counts the empty one after the last newline.
AcceptCounting(c) ==
    /\ server = "accept" /\ link[c] = "queued"
    /\ link' = [link EXCEPT ![c] = "open"]
    /\ conn' = c /\ server' = "read"
    /\ wire' = Size(call[c]) /\ left' = Len(call[c]) + 1 /\ got' = 0
    /\ UNCHANGED <<call, attempt, said, session, file, crashes, history>>

\* The app accepts, and both messages of the client are on their way.
Accept(c) ==
    /\ server = "accept" /\ link[c] = "queued"
    /\ link' = [link EXCEPT ![c] = "open"]
    /\ conn' = c /\ server' = "read"
    /\ wire' = Size(call[c]) /\ left' = Len(call[c]) /\ got' = 0
    /\ UNCHANGED <<call, attempt, said, session, file, crashes, history>>

\* Mutant: a read is counted for a line when it returns less.
ReadShort ==
    /\ server = "read" /\ left > 0 /\ wire > 0
    /\ LET n == Min({ReadSize - 1, wire})
       IN  wire' = wire - n /\ got' = got + n
    /\ left' = left - 1
    /\ UNCHANGED <<client, server, conn, session, file, crashes, history>>

\* One recv; with nothing on the wire it waits, and so does the client.
Read ==
    /\ server = "read" /\ left > 0 /\ wire > 0
    /\ LET n == Min({ReadSize, wire})
       IN  wire' = wire - n /\ got' = got + n
    /\ left' = left - 1
    /\ UNCHANGED <<client, server, conn, session, file, crashes, history>>

\* The lines that were read to their newline.
Taken == RestrictValues(call[conn], LAMBDA t : t.end <= got)

\* What the token loop can resolve: the tokens with a file, and any of those
\* whose data could be acquired, after which it has a file.
Resolvable(S) ==
    \A j \in DOMAIN Taken \ S :
        /\ file[Taken[j].data] = Absent
        /\ \A i \in S : i < j => Taken[i].data # Taken[j].data
Picks == UNION {[1..n -> DOMAIN Taken] : n \in 0..Len(call[conn])}
Ascending(f) == \A i, j \in DOMAIN f : i < j => f[i] < f[j]
Resolutions == {[i \in DOMAIN f |-> Taken[f[i]]] :
                    f \in {g \in Picks : Ascending(g) /\ Resolvable(Range(g))}}
Counter(d) == IF file[d] = Absent THEN Uses ELSE file[d]
Acquired(ts) == [d \in Data |-> IF \E i \in DOMAIN ts : ts[i].data = d THEN Counter(d) ELSE file[d]]

\* A token's data becomes an argument when its number is the next.
Arguments(ts) == FoldLeft(LAMBDA n, t : IF t.arg = n + 1 THEN n + 1 ELSE n, 0, ts)

Requested == server = "read" /\ left = 0
Sound(ts) == \A i \in DOMAIN ts : file[ts[i].data] # Torn

\* The data is processed, the counters go down in memory, the result is sent.
Process ==
    /\ Requested
    /\ \E ts \in Resolutions :
        /\ Sound(ts) /\ Arguments(ts) = Arity
        /\ session' = [i \in DOMAIN ts |->
                         [data |-> ts[i].data, n |-> Counter(ts[i].data) - 1]]
        /\ file' = Acquired(ts)
        /\ charged' = [charged EXCEPT ![conn] = @ + 1]
        /\ owing' = IF ts = <<>> THEN owing ELSE owing \cup {conn}
    /\ server' = "store"
    /\ UNCHANGED <<client, conn, socket, crashes>>

\* data_saving, a copy at a time
Store ==
    /\ server = "store" /\ session # <<>>
    /\ LET e == Head(session)
       IN  file' = [file EXCEPT ![e.data] = IF e.n <= 0 THEN Absent ELSE e.n]
    /\ session' = Tail(session)
    /\ owing' = IF Len(session) = 1 THEN owing \ {conn} ELSE owing
    /\ UNCHANGED <<client, server, conn, socket, crashes, charged>>

\* The connection of c ends; what the client had not yet read may be lost.
HangUp(c, how) == link' = [x \in Clients |-> IF x = c THEN how
                                            ELSE IF server' = "down" /\ link[x] = "queued"
                                            THEN "reset" ELSE link[x]]

\* Mutant: the client is told before the copies are saved.
FinishEarly ==
    /\ server = "store"
    /\ server' = IF session = <<>> THEN "accept" ELSE server
    /\ conn' = IF session = <<>> THEN Nobody ELSE conn
    /\ said' = [said EXCEPT ![conn] = TRUE]
    /\ IF session = <<>> THEN HangUp(conn, "closed") ELSE UNCHANGED link
    /\ UNCHANGED <<call, attempt, socket, session, file, crashes, history>>

\* "Session completed" is sent and the socket closed, over unread bytes perhaps.
Finish ==
    /\ server = "store" /\ session = <<>>
    /\ server' = "accept" /\ conn' = Nobody
    /\ said' = [said EXCEPT ![conn] = TRUE]
    /\ \E how \in {"closed"} \cup (IF wire > 0 THEN {"reset"} ELSE {}) : HangUp(conn, how)
    /\ wire' = 0 /\ got' = 0
    /\ UNCHANGED <<call, attempt, left, session, file, crashes, history>>

\* The process ends: its client's connection is closed or reset, those who wait
\* for theirs are reset.
Die ==
    /\ server' = "down"
    /\ IF conn = Nobody THEN HangUp(Nobody, "closed")
       ELSE \E how \in {"closed", "reset"} : HangUp(conn, how)
    /\ conn' = Nobody /\ session' = <<>>
    /\ wire' = 0 /\ left' = 0 /\ got' = 0
    /\ UNCHANGED <<call, attempt, said, history>>

\* A torn file, or a wrong number of arguments, raises.
RequestDies ==
    /\ Requested
    /\ \E ts \in Resolutions :
        /\ ~Sound(ts) \/ Arguments(ts) # Arity
        /\ file' = Acquired(ts)
    /\ Die
    /\ UNCHANGED crashes

\* Anything else that ends it; a file being written is left torn.
Crash ==
    /\ server # "down" /\ crashes < MaxCrashes
    /\ crashes' = crashes + 1
    /\ \/ UNCHANGED file
       \/ /\ session # <<>>
          /\ file' = [file EXCEPT ![Head(session).data] = Torn]
    /\ Die

\* run.sh starts it again.
Restart ==
    /\ server = "down" /\ server' = "accept"
    /\ UNCHANGED <<client, conn, socket, session, file, crashes, history>>

App ==
    \/ \E c \in Clients : Accept(c)
    \/ Read \/ Process \/ RequestDies
    \/ Store \/ Finish \/ Restart

ClientStep(c) == Connect(c) \/ Refused(c) \/ Ended(c) \/ Reset(c)

Step == App \/ \E c \in Clients : ClientStep(c)

Next == Step \/ Crash

Spec == Init /\ [][Next]_vars

\* Somebody who can go on does; nobody needs to crash.
FairSpec == Spec /\ WF_vars(Step)
-----------------------------------------------------------------------------
TypeOK ==
    /\ call \in [Clients -> Calls] /\ said \in [Clients -> BOOLEAN]
    /\ link \in [Clients -> {"ready", "queued", "open", "closed", "reset", "done", "failed"}]
    /\ attempt \in [Clients -> 0..RetryMax]
    /\ server \in {"accept", "read", "store", "down"} /\ conn \in Clients \cup {Nobody}
    /\ {wire, left, got} \subseteq Nat
    /\ file \in [Data -> TypeOfFile] /\ crashes \in 0..MaxCrashes
    /\ owing \subseteq Clients

\* The record takes as many reads as the app makes, and no more.
LongEnough(ts) == ReadSize * (Len(ts) - 1) < Size(ts)
Fits(ts) == LongEnough(ts) /\ Size(ts) <= ReadSize * Len(ts)

\* Counting lines and counting reads is the same thing when the lines fit: the
\* request is then made of every token (code_eval_01/main.py 409-412).
WholeCall ==
    server = "read" /\ left = 0 /\ Fits(call[conn]) => Taken = call[conn]

\* A call is processed once, and once more at most for every reset its client
\* saw: an app that dies does not make a client repeat what was done
\* (client.py 40-50, 107-110).
OncePerReset == \A c \in Clients : charged[c] <= 1

\* A client that is told of the completion has been charged on disk, not only
\* in memory (code_eval_01/main.py 348-352, 419).
CompletedIsStored == \A c \in Clients : said[c] => c \notin owing

\* When no record is too short for its reads, every call comes to an end,
\* through crashes, retries and the other clients' turns.
CallsEnd ==
    (\A c \in Clients : LongEnough(call[c]))
        ~> (\A c \in Clients : link[c] \in {"done", "failed"})

=============================================================================
