---------------------------- MODULE ConsumerApp ----------------------------
(***************************************************************************)
(* The data processing app inside a consumer's enclave: one process that   *)
(* serves one TLS session after another (main.py 353-378), keeps received  *)
(* data in encrypted files that outlive it, and is started again by run.sh *)
(* whenever it dies.  A session hands in tokens; each token is resolved    *)
(* from the cache or from its provider, its usage condition is checked,    *)
(* and when all are met the data is processed, counters are decremented in *)
(* memory, the result is sent and only then are the copies written back.   *)
(*                                                                         *)
(* The provider, the time and the location service are external here:      *)
(* Grant is the row the provider saved for the app.  uses and lost are     *)
(* history variables; the program has neither.                             *)
(***************************************************************************)
EXTENDS UsagePolicy, Sequences, Functions

CONSTANTS
    Data,         \* data identifiers, one cache file each
    Clients,      \* common names of the clients that may connect
    Owner,        \* the common name in the enclave's own certificate
    Places,       \* country codes the location service answers
    Grant,        \* the saved row of each data identifier
    TokenLists,   \* what a client may send
    Arity,        \* number of parameters of process_data
    MaxTime,      \* bound of what the time service answers
    MaxCrashes    \* bound of the number of crashes

Conditions == [counter : Int, location : Places \cup {Anywhere, NoneText},
               expiration : Int]
Tokens == [data : Data, arg : Nat, consumer : Clients, sound : BOOLEAN]

ASSUME OwnerAssumption == Owner \in Clients
ASSUME GrantAssumption ==
    Grant \in [Data -> [counter : Int, duration : Int, expiration : Int,
                        location : Places \cup {Anywhere, NoneText}]]
ASSUME TokenAssumption == TokenLists \subseteq Seq(Tokens)
ASSUME BoundAssumption ==
    Arity \in Nat /\ MaxTime \in Nat /\ MaxCrashes \in Nat

VARIABLES
    \* disk
    cache,      \* the file of each data identifier
    \* memory of the process
    pc,         \* where the main loop is
    client,     \* client_cn
    lines,      \* received tokens still to be verified
    todo,       \* providers: the verified ones still to be resolved
    uc,         \* provided_data_uc; from "save" on, those still to be saved
    args,       \* provided_data, by identifier
    isMet,      \* is_met_condition
    cnChecked,  \* CERTIFICATE_DN_CHECKED
    crashes,
    \* history
    uses,       \* uses of the present copy of each data identifier
    lost        \* those of them whose decrement never reached the disk

memory == <<client, lines, todo, uc, args, isMet>>
history == <<uses, lost>>
vars == <<cache, pc, memory, cnChecked, crashes, history>>

Times == 0..MaxTime

Absent == [file |-> "absent"]
Torn == [file |-> "torn"]      \* opened for writing, not yet written
Copies == [file : {"whole"}, condition : Conditions, cn : Clients]
Files == {Absent, Torn} \cup Copies
Entries == [data : Data, condition : Conditions, cn : Clients, expired : BOOLEAN]

Entry(d, copy) == [data |-> d, condition |-> copy.condition,
                   cn |-> copy.cn, expired |-> FALSE]
\* Mutant: the client's name is not written with the copy.
CopyOfNameless(e) == [file |-> "whole", condition |-> e.condition]

CopyOf(e) == [file |-> "whole", condition |-> e.condition, cn |-> e.cn]

Idle == /\ pc' = "accept"
        /\ client' = Owner /\ lines' = <<>> /\ todo' = <<>> /\ uc' = <<>> /\ args' = <<>>
        /\ isMet' = TRUE

Init ==
    /\ cache = [d \in Data |-> Absent]
    /\ pc = "accept"
    /\ client = Owner /\ lines = <<>> /\ todo = <<>> /\ uc = <<>> /\ args = <<>>
    /\ isMet = TRUE
    /\ cnChecked = FALSE
    /\ crashes = 0
    /\ uses = [d \in Data |-> 0]
    /\ lost = [d \in Data |-> 0]
-----------------------------------------------------------------------------
\* verify_token raises on a bad signature and on another consumer's token; the
\* check of app_ID looks for an extension the provider's certificate never has.
Verified(t) == t.sound /\ t.consumer = Owner

\* A client connects ...
Accept ==
    /\ pc = "accept"
    /\ \E cn \in Clients : client' = cn
    /\ pc' = "receive"
    /\ UNCHANGED <<cache, lines, todo, uc, args, isMet, cnChecked, crashes, history>>

\* ... and sends its tokens.  Until it has, recv blocks.
Receive ==
    /\ pc = "receive"
    /\ \E ts \in TokenLists : lines' = ts
    /\ pc' = "verify"
    /\ UNCHANGED <<cache, client, todo, uc, args, isMet, cnChecked, crashes, history>>

\* An invalid token is reported and left out.
VerifyToken ==
    /\ pc = "verify" /\ lines # <<>>
    /\ lines' = Tail(lines)
    /\ todo' = IF Verified(Head(lines)) THEN Append(todo, Head(lines)) ELSE todo
    /\ UNCHANGED <<cache, pc, client, uc, args, isMet, cnChecked, crashes, history>>

TokensVerified ==
    /\ pc = "verify" /\ lines = <<>>
    /\ pc' = "token"
    /\ UNCHANGED <<cache, memory, cnChecked, crashes, history>>

\* A cached copy is used whatever client it was cached for: a different
\* clientCN is only reported.
ReadCache ==
    /\ pc = "token" /\ todo # <<>>
    /\ LET d == Head(todo).data
       IN  /\ cache[d].file = "whole"
           /\ uc' = Append(uc, Entry(d, cache[d]))
    /\ pc' = "check"
    /\ UNCHANGED <<cache, client, lines, todo, args, isMet, cnChecked, crashes, history>>

\* receive_data succeeds and cache_data has opened the file.
Acquire ==
    /\ pc = "token" /\ todo # <<>>
    /\ cnChecked \/ client = Owner
    /\ LET d == Head(todo).data
       IN  /\ cache[d].file = "absent"
           /\ cache' = [cache EXCEPT ![d] = Torn]
           /\ \E now \in Times :
                uc' = Append(uc, [data |-> d, cn |-> client, expired |-> FALSE,
                                  condition |-> ProvidedCondition(Grant[d], now)])
           /\ uses' = [uses EXCEPT ![d] = 0]
           /\ lost' = [lost EXCEPT ![d] = 0]
    /\ cnChecked' = TRUE
    /\ pc' = "write"
    /\ UNCHANGED <<client, lines, todo, args, isMet, crashes>>

\* cache_data has written the file: before any condition is checked.
WriteCache ==
    /\ pc = "write"
    /\ LET e == uc[Len(uc)] IN cache' = [cache EXCEPT ![e.data] = CopyOf(e)]
    /\ pc' = "check"
    /\ UNCHANGED <<memory, cnChecked, crashes, history>>

\* Mutant: the file is opened before the request is made.
AcquireFailsLate ==
    /\ pc = "token" /\ todo # <<>>
    /\ cache[Head(todo).data].file = "absent"
    /\ cache' = [cache EXCEPT ![Head(todo).data] = Torn]
    /\ cnChecked' = (cnChecked \/ client = Owner)
    /\ todo' = Tail(todo)
    /\ UNCHANGED <<pc, client, lines, uc, args, isMet, crashes, history>>

\* Mutant: the request is repeated until it succeeds.
AcquireFailsRepeat ==
    /\ pc = "token" /\ todo # <<>>
    /\ cache[Head(todo).data].file = "absent"
    /\ cnChecked' = (cnChecked \/ client = Owner)
    /\ UNCHANGED <<cache, pc, memory, crashes, history>>

\* receive_data raises, on the client's name or on the provider's answer: the
\* token is skipped and is_met_condition stays as it is.
AcquireFails ==
    /\ pc = "token" /\ todo # <<>>
    /\ cache[Head(todo).data].file = "absent"
    /\ cnChecked' = (cnChecked \/ client = Owner)
    /\ todo' = Tail(todo)
    /\ UNCHANGED <<cache, pc, client, lines, uc, args, isMet, crashes, history>>

\* check_condition_phase.  A copy whose condition is not met is marked when
\* is_expired is 0, and nothing will be processed; the data of any other becomes
\* an argument when its arg_num is the next one.
Check ==
    /\ pc = "check"
    /\ \E now \in Times, here \in Places :
         LET e == uc[Len(uc)]
             verdict == CheckConditionPhase(e.condition, now, here)
         IN  IF verdict[1]
             THEN /\ args' = IF Head(todo).arg = Len(args) + 1
                             THEN Append(args, e.data) ELSE args
                  /\ UNCHANGED <<uc, isMet>>
             ELSE /\ uc' = [uc EXCEPT ![Len(uc)].expired = verdict[2] = 0]
                  /\ isMet' = FALSE
                  /\ UNCHANGED args
    /\ todo' = Tail(todo)
    /\ pc' = "token"
    /\ UNCHANGED <<cache, client, lines, cnChecked, crashes, history>>

\* Mutant: the counter is left as it was.
DecrementedNot(e) == e

Decremented(e) == [e EXCEPT !.condition.counter = @ - 1]

\* process_data runs, and every counter of the session goes down, in memory.
Process ==
    /\ pc = "token" /\ todo = <<>> /\ isMet
    /\ Len(args) = Arity
    /\ uc' = [i \in DOMAIN uc |-> Decremented(uc[i])]
    /\ uses' = [d \in Data |-> IF d \in Range(args) THEN uses[d] + 1 ELSE uses[d]]
    /\ pc' = "send"
    /\ UNCHANGED <<cache, client, lines, todo, args, isMet, cnChecked, crashes, lost>>

\* The result is sent; after a condition that was not met nothing is processed.
SendOrWithhold ==
    /\ pc = IF isMet THEN "send" ELSE "token"
    /\ todo = <<>>
    /\ pc' = "save"
    /\ UNCHANGED <<cache, memory, cnChecked, crashes, history>>
-----------------------------------------------------------------------------
\* Mutant: a counter of zero is stored.
ToRemoveLate(e) == e.expired \/ e.condition.counter < 0

\* data_saving: a copy marked expired, or whose counter is used up, is removed.
ToRemove(e) == e.expired \/ e.condition.counter <= 0

\* os.remove, whose failure on a file already gone is swallowed
Remove ==
    /\ pc = "save" /\ uc # <<>>
    /\ ToRemove(Head(uc))
    /\ cache' = [cache EXCEPT ![Head(uc).data] = Absent]
    /\ uc' = Tail(uc)
    /\ UNCHANGED <<pc, client, lines, todo, args, isMet, cnChecked, crashes, history>>

\* store_data opens the file, which empties it ...
OpenStore ==
    /\ pc = "save" /\ uc # <<>>
    /\ ~ToRemove(Head(uc))
    /\ cache' = [cache EXCEPT ![Head(uc).data] = Torn]
    /\ pc' = "store"
    /\ UNCHANGED <<memory, cnChecked, crashes, history>>

\* ... and writes it.
Store ==
    /\ pc = "store"
    /\ cache' = [cache EXCEPT ![Head(uc).data] = CopyOf(Head(uc))]
    /\ uc' = Tail(uc)
    /\ pc' = "save"
    /\ UNCHANGED <<client, lines, todo, args, isMet, cnChecked, crashes, history>>

\* The session-completed message is sent and the socket closed.
Finish ==
    /\ pc = "save" /\ uc = <<>>
    /\ Idle
    /\ UNCHANGED <<cache, cnChecked, crashes, history>>
-----------------------------------------------------------------------------
\* The session has been processed and its counters have gone down.
Charged == pc \in {"send", "save", "store"} /\ isMet

\* Uses of this session whose decrement exists in memory only.
Pending ==
    IF Charged
    THEN {d \in Range(args) : \E i \in DOMAIN uc : uc[i].data = d}
    ELSE {}

\* The process is gone: its memory with it, the files as they are.
Die ==
    /\ pc' = "down"
    /\ client' = Owner /\ lines' = <<>> /\ todo' = <<>> /\ uc' = <<>> /\ args' = <<>>
    /\ isMet' = TRUE
    /\ cnChecked' = FALSE
    /\ lost' = [d \in Data |-> IF d \in Pending THEN lost[d] + 1 ELSE lost[d]]
    /\ UNCHANGED <<cache, uses>>

\* A file that does not parse, or a wrong number of arguments, ends the
\* process with an uncaught exception.
ReadTorn ==
    /\ pc = "token" /\ todo # <<>>
    /\ cache[Head(todo).data].file = "torn"
    /\ Die
    /\ UNCHANGED crashes

\* The handshake fails, the client resets the connection, or what it sends
\* first is no number: no handler catches it.
AcceptFails ==
    /\ pc \in {"accept", "receive"}
    /\ Die
    /\ UNCHANGED crashes

WrongArity ==
    /\ pc = "token" /\ todo = <<>> /\ isMet
    /\ Len(args) # Arity
    /\ Die
    /\ UNCHANGED crashes

\* Anything else that ends it: a send to a client that has gone, an
\* unreachable time or location service, a signal, the machine.
Crash ==
    /\ pc # "down"
    /\ crashes < MaxCrashes
    /\ Die
    /\ crashes' = crashes + 1

\* run.sh starts it again.
Restart ==
    /\ pc = "down"
    /\ Idle
    /\ UNCHANGED <<cache, cnChecked, crashes, history>>

Step ==
    \/ VerifyToken \/ TokensVerified
    \/ ReadCache \/ Acquire \/ WriteCache \/ AcquireFails
    \/ Check \/ Process \/ SendOrWithhold
    \/ Remove \/ OpenStore \/ Store \/ Finish
    \/ ReadTorn \/ WrongArity \/ Restart

Next == Accept \/ Receive \/ AcceptFails \/ Step \/ Crash

Spec == Init /\ [][Next]_vars

\* The process runs whenever it can; clients, their lines and crashes need not
\* come.
FairSpec == Spec /\ WF_vars(Step)
-----------------------------------------------------------------------------
TypeOK ==
    /\ cache \in [Data -> Files]
    /\ pc \in {"accept", "receive", "verify", "token", "write", "check", "send", "save",
               "store", "down"}
    /\ client \in Clients
    /\ lines \in Seq(Tokens) /\ todo \in Seq(Tokens)
    /\ uc \in Seq(Entries) /\ args \in Seq(Data)
    /\ isMet \in BOOLEAN /\ cnChecked \in BOOLEAN
    /\ crashes \in Nat
    /\ uses \in [Data -> Nat] /\ lost \in [Data -> Nat]

\* The uses a grant pays for: a counter of zero or less is only looked at when
\* the copy is saved, so the first use of a copy is never refused.
Budget(d) == IF Grant[d].counter >= 1 THEN Grant[d].counter ELSE 1

\* One copy of a data identifier is processed at most as often as its counter
\* says, plus once for every crash that fell between the processing and the
\* write-back (lines 298-314); whatever sessions, failures and duplicate
\* tokens come between.
BoundedUses ==
    \A d \in Data : /\ uses[d] <= Budget(d) + lost[d]
                   /\ lost[d] <= crashes

\* Between sessions a readable file accounts for the past: its counter is what
\* the grant began with less the uses, and it is never an exhausted one unless
\* it was granted exhausted (lines 141-142).
FilesAccountForUses ==
    pc = "accept" =>
        \A d \in Data : cache[d].file = "whole" =>
            LET c == cache[d].condition.counter
            IN  /\ uses[d] <= Grant[d].counter - c + lost[d]
                /\ c >= 1 \/ c = Grant[d].counter

\* An unreadable file is the one being written, or a crash made it: no order
\* of sessions leaves one behind.
TornOnlyByCrash ==
    \A d \in Data : cache[d].file = "torn" =>
        \/ crashes > 0
        \/ pc = "write" /\ uc[Len(uc)].data = d
        \/ pc = "store" /\ Head(uc).data = d

\* Every session whose tokens have been received comes to an end, and the
\* process is back at accept, whatever the tokens were and whether or not their
\* data could be had.
SessionsEnd == pc \notin {"accept", "receive"} ~> pc = "accept"

(***************************************************************************)
(* What is needed beside the safety properties above to prove them by      *)
(* induction: Shape makes TypeOK inductive, Accounts is inductive with     *)
(* both.                                                                   *)
(***************************************************************************)

\* What the program counter says of the sequences in memory.
Shape ==
    /\ pc \in {"accept", "receive", "verify", "down"} => uc = <<>> /\ args = <<>>
    /\ pc \in {"write", "check"} => uc # <<>> /\ todo # <<>>
    /\ pc = "store" => uc # <<>> /\ ~ToRemove(Head(uc))

Loan(d) == IF d \in Pending THEN 1 ELSE 0

\* Until the data is processed, every argument is the data of some entry.
ArgumentsHaveEntries ==
    pc \in {"token", "write", "check"} =>
        \A k \in DOMAIN args : \E i \in DOMAIN uc : uc[i].data = args[k]

\* A file may be behind by the one use that is still to be written back.
FilesAccount ==
    \A d \in Data : cache[d].file = "whole" =>
        LET c == cache[d].condition.counter
        IN  /\ uses[d] <= Grant[d].counter - c + lost[d] + Loan(d)
            /\ c <= Grant[d].counter
            /\ c >= 1 \/ c = Grant[d].counter

\* An entry in memory is never behind.
EntriesAccount ==
    \A i \in DOMAIN uc :
        LET d == uc[i].data
            c == uc[i].condition.counter
        IN  /\ uses[d] <= Grant[d].counter - c + lost[d]
            /\ c <= Grant[d].counter
            /\ Charged \/ c >= 1 \/ c = Grant[d].counter

Accounts ==
    ArgumentsHaveEntries /\ FilesAccount /\ EntriesAccount /\ BoundedUses

\* Seen from outside, the sessions are uses from purses that the counters
\* fill: however a session is put together and wherever it is interrupted, each
\* step takes at most one use of each data, none that is not paid for, a charge
\* once written back stands, and only a crash before that undoes it
\* (lines 262-314).
Left(d) == Budget(d) + lost[d] - uses[d]

Purse == INSTANCE UsageControl WITH
    Paid <- [d \in Data |-> Budget(d)],
    left <- [d \in Data |-> Left(d)],
    unsettled <- Pending,
    faults <- crashes

ImplementsUsageControl == Purse!Spec

-----------------------------------------------------------------------------
(***************************************************************************)
(* What the code says and the program does not do.                         *)
(***************************************************************************)

\* Data cached for one client is not processed for another (line 194 reports
\* "Failed to load cached data due to invalid client CN.").
CacheIsPerClient ==
    pc = "send" => \A i \in DOMAIN uc : uc[i].cn = client

=============================================================================
