------------------------- MODULE RetriedCallProofs -------------------------
(***************************************************************************)
(* Proofs about RetriedCall, for any number of clients, data, attempts and *)
(* crashes, any token files and any size of a read.                        *)
(***************************************************************************)
EXTENDS RetriedCall, TLAPS

-----------------------------------------------------------------------------
(* The invariant.                                                          *)

Entries == [data : Data, n : -1..Uses]

\* The app serves somebody exactly while it reads or stores, and has entries of
\* a session in memory only while it stores.  An attempt is left to everyone
\* whose call has not ended.
Serving ==
    /\ conn = Nobody <=> server \in {"accept", "down"}
    /\ server # "store" => session = <<>>
    /\ \A c \in Clients : /\ conn = c => link[c] = "open"
                          /\ link[c] \notin {"done", "failed"} => attempt[c] < RetryMax
Typed ==
    /\ TypeOK /\ Serving
    /\ session \in Seq(Entries) /\ charged \in [Clients -> Nat]

\* Who is about to call, or is being read, was not charged since its last reset.
Charges ==
    \A c \in Clients : /\ charged[c] <= 1
                       /\ link[c] \in {"ready", "queued"} => charged[c] = 0
                       /\ conn = c /\ server = "read" => charged[c] = 0

\* An attempt starts without a completion and without debts; a debt is made of
\* entries that are still to be stored.
Debts ==
    \A c \in Clients : /\ said[c] => c \notin owing
                       /\ link[c] = "queued" \/ conn = c => ~said[c]
                       /\ link[c] = "queued" => c \notin owing
                       /\ conn = c /\ session = <<>> => c \notin owing

\* Until the wire is empty, every read was a full one.
Reads ==
    server = "read" =>
        /\ wire + got = Size(call[conn]) /\ left <= Len(call[conn])
        /\ wire = 0 \/ got = ReadSize * (Len(call[conn]) - left)

-----------------------------------------------------------------------------
(* Records, reads and resolutions.                                         *)

LEMMA SizeTyped == ASSUME NEW ts \in Calls PROVE ts \in Seq(Tokens) /\ Size(ts) \in Nat
  <1>1. ts \in Seq(Tokens)
    BY CallAssumption
  <1>2. CASE ts # <<>>
    <2>1. Len(ts) \in 1..Len(ts)
      BY <1>1, <1>2
    <2>2. ts[Len(ts)] \in Tokens
      BY <1>1, <2>1
    <2> QED
      BY <1>1, <1>2, <2>2 DEF Size, Last, Tokens
  <1> QED
    BY <1>1, <1>2 DEF Size

\* One recv takes what is on the wire, and ReadSize at most.
LEMMA ReadTakes ==
    ASSUME NEW m \in Nat, NEW n \in Nat
    PROVE  Min({m, n}) = IF m <= n THEN m ELSE n
  <1> DEFINE least == IF m <= n THEN m ELSE n
  <1>1. least \in {m, n} /\ \A y \in {m, n} : least <= y
    OBVIOUS
  <1>2. \A x \in {m, n} : (\A y \in {m, n} : x <= y) => x = least
    OBVIOUS
  <1> QED
    BY <1>1, <1>2 DEF Min

\* A resolution is made of tokens of the record.
LEMMA ResolutionIs ==
    ASSUME Typed, conn \in Clients, NEW ts \in Resolutions
    PROVE  ts \in Seq(Tokens)
  <1>1. call[conn] \in Calls
    BY DEF Typed, TypeOK
  <1>2. call[conn] \in Seq(Tokens)
    BY <1>1, SizeTyped
  <1>3. PICK f \in Picks : ts = [i \in DOMAIN f |-> Taken[f[i]]]
    BY DEF Resolutions
  <1>4. PICK n \in 0..Len(call[conn]) : f \in [1..n -> DOMAIN Taken]
    BY <1>3 DEF Picks
  <1>5. \A k \in DOMAIN Taken : Taken[k] \in Tokens
    BY <1>2 DEF Taken, RestrictValues, Restrict
  <1>6. ts \in [1..n -> Tokens]
    BY <1>3, <1>4, <1>5
  <1>7. n \in Nat
    BY <1>2, <1>4
  <1> QED
    BY <1>6, <1>7

LEMMA AcquiredTyped ==
    ASSUME Typed, NEW ts \in Seq(Tokens)
    PROVE  Acquired(ts) \in [Data -> TypeOfFile]
  <1>1. ASSUME NEW d \in Data PROVE Counter(d) \in TypeOfFile /\ file[d] \in TypeOfFile
    BY NumberAssumption DEF Counter, Typed, TypeOK, TypeOfFile
  <1> QED
    BY <1>1 DEF Acquired

\* What a session that is processed has in memory.
LEMMA EntriesTyped ==
    ASSUME Typed, NEW ts \in Seq(Tokens), Sound(ts)
    PROVE  LET s == [i \in DOMAIN ts |-> [data |-> ts[i].data, n |-> Counter(ts[i].data) - 1]]
           IN  s \in Seq(Entries) /\ (s = <<>> <=> ts = <<>>)
  <1> DEFINE s == [i \in DOMAIN ts |-> [data |-> ts[i].data, n |-> Counter(ts[i].data) - 1]]
  <1>1. ASSUME NEW i \in DOMAIN ts PROVE s[i] \in Entries
    <2> DEFINE token == ts[i]
    <2>0. token \in Tokens
      OBVIOUS
    <2>1. token.data \in Data
      BY <2>0 DEF Tokens
    <2>2. file[ts[i].data] \in TypeOfFile \ {Torn}
      BY <2>1 DEF Sound, Typed, TypeOK
    <2>3. Counter(ts[i].data) \in 0..Uses
      BY <2>2, NumberAssumption DEF Counter, TypeOfFile
    <2> QED
      BY <2>1, <2>3, NumberAssumption DEF Entries
  <1>2. DOMAIN ts = 1..Len(ts) /\ Len(ts) \in Nat
    OBVIOUS
  <1>3. s \in [1..Len(ts) -> Entries]
    BY <1>1, <1>2
  <1>4. s \in Seq(Entries) /\ Len(s) = Len(ts)
    BY <1>2, <1>3
  <1> QED
    BY <1>4

-----------------------------------------------------------------------------
(* Types, and who is served.                                               *)

LEMMA InitTyped == Init => Typed
  BY NumberAssumption, NobodyAssumption
     DEF Init, Typed, TypeOK, Serving, TypeOfFile, Absent

\* An attempt that failed leaves one more, or ends the call.
LEMMA RetryTyped ==
    ASSUME Typed, NEW c \in Clients, link[c] \in {"ready", "reset"}, Retry(c)
    PROVE  /\ attempt' \in [Clients -> 0..RetryMax]
           /\ link' = [link EXCEPT ![c] = link'[c]]
           /\ link'[c] \in {"ready", "failed"}
           /\ link'[c] # "failed" => attempt'[c] < RetryMax
           /\ attempt' = [attempt EXCEPT ![c] = attempt'[c]]
  <1>1. attempt[c] \in 0..RetryMax /\ attempt[c] < RetryMax /\ RetryMax \in Nat
    BY NumberAssumption DEF Typed, TypeOK, Serving
  <1>2. attempt' = [attempt EXCEPT ![c] = attempt[c] + 1]
    BY DEF Retry
  <1>3. link' = [link EXCEPT ![c] = IF attempt[c] + 1 < RetryMax THEN "ready" ELSE "failed"]
    BY DEF Retry
  <1>4. attempt \in [Clients -> 0..RetryMax] /\ DOMAIN link = Clients
    BY DEF Typed, TypeOK
  <1> QED
    BY <1>1, <1>2, <1>3, <1>4

\* Some step of a client's attempt, none of which touches the app.
LEMMA ClientTyped ==
    ASSUME Typed, NEW c \in Clients, ClientStep(c)
    PROVE  Typed'
  <1> USE NobodyAssumption DEF Typed, TypeOK, Serving, socket, history, client
  <1>1. CASE Connect(c)
    BY <1>1 DEF Connect
  <1>2. CASE Refused(c)
    BY ZenonT(40), <1>2, RetryTyped DEF Refused
  <1>3. CASE Ended(c)
    BY <1>3 DEF Ended
  <1>4. CASE Reset(c)
    BY ZenonT(40), <1>4, RetryTyped DEF Reset
  <1> QED
    BY <1>1, <1>2, <1>3, <1>4 DEF ClientStep

\* A process that ends serves nobody.
LEMMA DieTyped ==
    ASSUME Typed, Die, file' \in [Data -> TypeOfFile], crashes' \in 0..MaxCrashes
    PROVE  Typed'
  <1>1. \A c \in Clients : link'[c] # link[c] => link'[c] \in {"closed", "reset"} /\ link[c] \in {"open", "queued"}
    BY DEF Die, HangUp, Typed, Serving
  <1>2. link' \in [Clients -> {"ready", "queued", "open", "closed", "reset", "done", "failed"}]
    BY DEF Die, HangUp, Typed, TypeOK
  <1>3. /\ server' = "down" /\ conn' = Nobody /\ session' = <<>>
        /\ wire' = 0 /\ left' = 0 /\ got' = 0
        /\ UNCHANGED <<call, attempt, said, charged, owing>>
    BY DEF Die, history
  <1>4. TypeOK'
    BY <1>2, <1>3 DEF Typed, TypeOK
  <1>5. Serving'
    BY <1>1, <1>3, NobodyAssumption DEF Typed, Serving
  <1> QED
    BY <1>3, <1>4, <1>5 DEF Typed

LEMMA AppTyped == ASSUME Typed, App PROVE Typed'
  <1> USE DEF socket, history, client
  <1>1. ASSUME NEW c \in Clients, Accept(c) PROVE Typed'
    <2>1. call[c] \in Calls
      BY DEF Typed, TypeOK
    <2>2. Size(call[c]) \in Nat /\ Len(call[c]) \in Nat
      BY <2>1, SizeTyped
    <2>3. wire' \in Nat /\ left' \in Nat /\ got' \in Nat
      BY <1>1, <2>2 DEF Accept
    <2>4. /\ link' = [link EXCEPT ![c] = "open"] /\ conn = Nobody
          /\ \A x \in Clients : link'[x] # link[x] => x = c
      BY <1>1 DEF Accept, Typed, TypeOK, Serving
    <2>5. Serving' /\ TypeOK'
      BY <1>1, <2>3, <2>4, NobodyAssumption DEF Accept, Typed, TypeOK, Serving
    <2> QED
      BY <1>1, <2>5 DEF Accept, Typed
  <1>2. CASE Read
    <2>1. ReadSize \in Nat /\ wire \in Nat
      BY NumberAssumption DEF Typed, TypeOK
    <2>2. Min({ReadSize, wire}) \in Nat /\ Min({ReadSize, wire}) <= wire
      BY <2>1, ReadTakes
    <2> QED
      BY SMTT(30), <1>2, <2>1, <2>2 DEF Read, Typed, TypeOK, Serving
  <1>3. CASE Process
    <2>1. conn \in Clients /\ server = "read"
      BY <1>3 DEF Process, Requested, Typed, Serving, TypeOK
    <2>2. PICK ts \in Resolutions :
            /\ Sound(ts) /\ file' = Acquired(ts)
            /\ session' = [i \in DOMAIN ts |-> [data |-> ts[i].data, n |-> Counter(ts[i].data) - 1]]
            /\ charged' = [charged EXCEPT ![conn] = @ + 1]
            /\ owing' = IF ts = <<>> THEN owing ELSE owing \cup {conn}
      BY <1>3 DEF Process
    <2>3. ts \in Seq(Tokens)
      BY <2>1, ResolutionIs
    <2>4. file' \in [Data -> TypeOfFile] /\ session' \in Seq(Entries)
      BY <2>2, <2>3, AcquiredTyped, EntriesTyped
    <2>5. charged' \in [Clients -> Nat] /\ owing' \subseteq Clients
      BY <2>1, <2>2 DEF Typed, TypeOK
    <2> QED
      BY <1>3, <2>1, <2>4, <2>5 DEF Process, Typed, TypeOK, Serving
  <1>4. CASE RequestDies
    <2>1. conn \in Clients
      BY <1>4 DEF RequestDies, Requested, Typed, Serving, TypeOK
    <2>2. PICK ts \in Resolutions : file' = Acquired(ts)
      BY <1>4 DEF RequestDies
    <2>3. file' \in [Data -> TypeOfFile]
      BY <2>1, <2>2, ResolutionIs, AcquiredTyped
    <2> QED
      BY <1>4, <2>3, DieTyped DEF RequestDies, Typed, TypeOK
  <1>5. CASE Store
    <2>1. Head(session) \in Entries /\ Tail(session) \in Seq(Entries)
      BY <1>5 DEF Store, Typed
    <2>2. file' \in [Data -> TypeOfFile]
      BY SMTT(30), <1>5, <2>1, NumberAssumption DEF Store, Typed, TypeOK, TypeOfFile, Entries
    <2>3. owing' \subseteq Clients
      BY <1>5 DEF Store, Typed, TypeOK
    <2> QED
      BY <1>5, <2>1, <2>2, <2>3 DEF Store, Typed, TypeOK, Serving
  <1>6. CASE Finish
    <2>1. conn \in Clients /\ link[conn] = "open"
      BY <1>6 DEF Finish, Typed, Serving, TypeOK
    <2>2. PICK how \in {"closed", "reset"} : HangUp(conn, how)
      BY <1>6 DEF Finish
    <2>3. link' = [link EXCEPT ![conn] = how]
      BY <1>6, <2>1, <2>2 DEF Finish, HangUp, Typed, TypeOK
    <2> QED
      BY <1>6, <2>1, <2>3, NobodyAssumption DEF Finish, Typed, TypeOK, Serving
  <1>7. CASE Restart
    BY <1>7 DEF Restart, Typed, TypeOK, Serving
  <1> QED
    BY <1>1, <1>2, <1>3, <1>4, <1>5, <1>6, <1>7 DEF App

LEMMA CrashTyped == ASSUME Typed, Crash PROVE Typed'
  <1>1. crashes' \in 0..MaxCrashes
    BY NumberAssumption DEF Crash, Typed, TypeOK
  <1>2. file' \in [Data -> TypeOfFile]
    BY DEF Crash, Typed, TypeOK, TypeOfFile
  <1> QED
    BY <1>1, <1>2, DieTyped DEF Crash

LEMMA NextTyped == Typed /\ [Next]_vars => Typed'
  <1> SUFFICES ASSUME Typed, [Next]_vars PROVE Typed'
    OBVIOUS
  <1>1. CASE UNCHANGED vars
    BY <1>1 DEF Typed, TypeOK, Serving, vars, client, socket, history
  <1> QED
    BY <1>1, ClientTyped, AppTyped, CrashTyped DEF Next, Step

-----------------------------------------------------------------------------
(* What is charged.                                                        *)

LEMMA InitCharges == Init => Charges /\ Debts
  BY NobodyAssumption DEF Init, Charges, Debts

LEMMA ClientCharges ==
    ASSUME Typed, Charges, Debts, NEW c \in Clients, ClientStep(c)
    PROVE  Charges' /\ Debts'
  <1> USE DEF Typed, TypeOK, Serving, Charges, Debts, socket, history, client
  <1>1. CASE Connect(c)
    BY <1>1 DEF Connect
  <1>2. CASE Refused(c)
    BY <1>2, RetryTyped DEF Refused
  <1>3. CASE Ended(c)
    BY <1>3 DEF Ended
  <1>4. CASE Reset(c)
    BY SMTT(30), <1>4, RetryTyped DEF Reset
  <1> QED
    BY <1>1, <1>2, <1>3, <1>4 DEF ClientStep

\* A process that ends leaves charges and debts as they are, and queues nobody.
LEMMA DieCharges ==
    ASSUME Typed, Charges, Debts, Die
    PROVE  Charges' /\ Debts'
  <1>1. \A c \in Clients : link'[c] # link[c] => link'[c] \in {"closed", "reset"}
    BY DEF Die, HangUp, Typed, Serving
  <1>2. conn' = Nobody /\ UNCHANGED <<said, charged, owing>>
    BY DEF Die, history
  <1> QED
    BY <1>1, <1>2, NobodyAssumption DEF Charges, Debts

LEMMA AppCharges ==
    ASSUME Typed, Charges, Debts, App
    PROVE  Charges' /\ Debts'
  <1> USE DEF socket, history, client
  <1>1. ASSUME NEW c \in Clients, Accept(c) PROVE Charges' /\ Debts'
    <2>1. session = <<>>
      BY <1>1 DEF Accept, Typed, Serving
    <2> QED
      BY <1>1, <2>1 DEF Accept, Typed, TypeOK, Charges, Debts
  <1>2. CASE Read
    BY <1>2 DEF Read, Charges, Debts
  <1>3. CASE Process
    <2>1. conn \in Clients /\ server = "read" /\ link[conn] = "open" /\ session = <<>>
      BY <1>3 DEF Process, Requested, Typed, Serving, TypeOK
    <2>2. PICK ts \in Resolutions :
            /\ Sound(ts)
            /\ session' = [i \in DOMAIN ts |-> [data |-> ts[i].data, n |-> Counter(ts[i].data) - 1]]
            /\ charged' = [charged EXCEPT ![conn] = @ + 1]
            /\ owing' = IF ts = <<>> THEN owing ELSE owing \cup {conn}
      BY <1>3 DEF Process
    <2>3. session' = <<>> => ts = <<>>
      BY <2>1, <2>2, ResolutionIs, EntriesTyped
    <2>4. server' = "store" /\ UNCHANGED <<said, link, conn>>
      BY <1>3 DEF Process
    <2>5. Charges'
      BY <2>1, <2>2, <2>4 DEF Charges, Typed, TypeOK
    <2>6. Debts'
      BY <2>1, <2>2, <2>3, <2>4 DEF Debts
    <2> QED
      BY <2>5, <2>6
  <1>4. CASE RequestDies
    BY <1>4, DieCharges DEF RequestDies
  <1>5. CASE Store
    <2>1. session \in Seq(Entries) /\ session # <<>>
      BY <1>5 DEF Store, Typed
    <2>2. ASSUME Tail(session) = <<>> PROVE Len(session) = 1
      <3> DEFINE t == Tail(session)
      <3>1. Len(t) = Len(session) - 1 /\ Len(session) \in Nat
        BY <2>1
      <3>2. t = <<>>
        BY <2>2
      <3> HIDE DEF t
      <3>3. Len(t) = 0
        BY <3>2
      <3> QED
        BY <3>1, <3>3
    <2>3. /\ session' = Tail(session)
          /\ owing' = IF Len(session) = 1 THEN owing \ {conn} ELSE owing
          /\ UNCHANGED <<said, link, conn, server, charged>>
      BY <1>5 DEF Store
    <2> QED
      BY <2>2, <2>3 DEF Charges, Debts
  <1>6. CASE Finish
    <2>1. conn \in Clients /\ link[conn] = "open"
      BY <1>6 DEF Finish, Typed, Serving, TypeOK
    <2>2. PICK how \in {"closed", "reset"} : HangUp(conn, how)
      BY <1>6 DEF Finish
    <2>3. link' = [link EXCEPT ![conn] = how]
      BY <1>6, <2>1, <2>2 DEF Finish, HangUp, Typed, TypeOK
    <2> QED
      BY <1>6, <2>1, <2>3, NobodyAssumption DEF Finish, Typed, TypeOK, Charges, Debts
  <1>7. CASE Restart
    BY <1>7 DEF Restart, Charges, Debts
  <1> QED
    BY <1>1, <1>2, <1>3, <1>4, <1>5, <1>6, <1>7 DEF App

LEMMA NextCharges == Typed /\ Charges /\ Debts /\ [Next]_vars => Charges' /\ Debts'
  <1> SUFFICES ASSUME Typed, Charges, Debts, [Next]_vars PROVE Charges' /\ Debts'
    OBVIOUS
  <1>1. CASE UNCHANGED vars
    BY <1>1 DEF Charges, Debts, vars, client, socket, history
  <1>2. CASE Crash
    BY <1>2, DieCharges DEF Crash
  <1> QED
    BY <1>1, <1>2, ClientCharges, AppCharges DEF Next, Step

-----------------------------------------------------------------------------
(* What is read.                                                           *)

LEMMA InitReads == Init => Reads
  BY DEF Init, Reads

\* One more read is ReadSize more.
LEMMA OneRead ==
    ASSUME NEW r \in Nat, NEW n \in Int, NEW k \in Int
    PROVE  r * (n - (k - 1)) = r * (n - k) + r
  <1> QED
    BY Z3

LEMMA ReadReads == ASSUME Typed, Reads, Read PROVE Reads'
  <1> DEFINE n == Min({ReadSize, wire})
             ts == call[conn]
  <1>1. conn \in Clients /\ server = "read"
    BY DEF Read, Typed, TypeOK, Serving
  <1>2. ts \in Calls
    BY <1>1 DEF Typed, TypeOK
  <1>3. Size(ts) \in Nat /\ Len(ts) \in Nat
    BY <1>2, SizeTyped
  <1>4. ReadSize \in Nat /\ wire \in Nat /\ got \in Nat /\ left \in Nat
    BY NumberAssumption DEF Typed, TypeOK
  <1>5. n = IF ReadSize <= wire THEN ReadSize ELSE wire
    BY <1>4, ReadTakes
  <1>6. /\ wire # 0 /\ wire' = wire - n /\ got' = got + n /\ left' = left - 1
        /\ UNCHANGED <<server, conn, call>>
    BY <1>4 DEF Read, client
  <1>7. /\ wire + got = Size(ts) /\ left <= Len(ts)
        /\ got = ReadSize * (Len(ts) - left)
    BY <1>1, <1>6 DEF Reads
  <1>8. ReadSize * (Len(ts) - left') = ReadSize * (Len(ts) - left) + ReadSize
    BY <1>3, <1>4, <1>6, OneRead
  <1>9. wire' + got' = Size(ts) /\ left' <= Len(ts)
    BY SMTT(30), <1>3, <1>4, <1>5, <1>6, <1>7
  <1>10. wire' = 0 \/ got' = ReadSize * (Len(ts) - left')
    BY <1>4, <1>5, <1>6, <1>7, <1>8
  <1> HIDE DEF n, ts
  <1> QED
    BY <1>6, <1>9, <1>10 DEF Reads, ts

LEMMA NextReads == Typed /\ Reads /\ [Next]_vars => Reads'
  <1> SUFFICES ASSUME Typed, Reads, [Next]_vars PROVE Reads'
    OBVIOUS
  <1> USE DEF Reads, client, socket, history
  <1>1. ASSUME NEW c \in Clients, Accept(c) PROVE Reads'
    <2>1. call[c] \in Calls
      BY DEF Typed, TypeOK
    <2>2. Size(call[c]) \in Nat /\ Len(call[c]) \in Nat /\ ReadSize \in Nat
      BY <2>1, SizeTyped, NumberAssumption
    <2>3. ReadSize * (Len(call[c]) - Len(call[c])) = 0
      BY <2>2
    <2> QED
      BY <1>1, <2>2, <2>3 DEF Accept
  <1>2. CASE Read
    BY <1>2, ReadReads
  <1>3. CASE Process \/ Store \/ Finish \/ Restart
    BY <1>3 DEF Process, Store, Finish, Restart, Typed, Serving
  <1>4. CASE Crash \/ RequestDies
    BY <1>4 DEF Crash, RequestDies, Die
  <1>5. ASSUME NEW c \in Clients, ClientStep(c) PROVE Reads'
    BY <1>5 DEF ClientStep, Connect, Refused, Ended, Reset, Retry
  <1>6. CASE UNCHANGED vars
    BY <1>6 DEF vars
  <1> QED
    BY <1>1, <1>2, <1>3, <1>4, <1>5, <1>6 DEF Next, Step, App

\* With the wire empty, every line is read to its end.
LEMMA AllTaken ==
    ASSUME Typed, conn \in Clients, got = Size(call[conn])
    PROVE  Taken = call[conn]
  <1> DEFINE ts == call[conn]
  <1>1. ts \in Calls
    BY DEF Typed, TypeOK
  <1>2. ts \in Seq(Tokens) /\ InOrder(ts)
    BY <1>1, CallAssumption
  <1>3. ASSUME NEW k \in DOMAIN ts PROVE ts[k].end <= got
    <2>1. ts # <<>> /\ k \in 1..Len(ts) /\ Len(ts) \in DOMAIN ts /\ Len(ts) \in Nat
      BY <1>2
    <2>2. got = ts[Len(ts)].end
      BY <2>1 DEF Size, Last
    <2>3. ts[k] \in Tokens /\ ts[Len(ts)] \in Tokens
      BY <1>2, <2>1
    <2>4. ts[k].end \in Nat /\ ts[Len(ts)].end \in Nat
      BY <2>3 DEF Tokens
    <2>5. k = Len(ts) \/ ts[k].end < ts[Len(ts)].end
      BY <1>2, <2>1 DEF InOrder
    <2> QED
      BY <2>2, <2>4, <2>5
  <1>4. {k \in DOMAIN ts : ts[k].end <= got} = DOMAIN ts
    BY <1>3
  <1>5. Taken = [k \in DOMAIN ts |-> ts[k]]
    BY <1>4 DEF Taken, RestrictValues, Restrict
  <1> QED
    BY <1>2, <1>5

LEMMA ReadsWhole == Typed /\ Reads => WholeCall
  <1> SUFFICES ASSUME Typed, Reads, server = "read", left = 0, Fits(call[conn])
               PROVE  Taken = call[conn]
    BY DEF WholeCall
  <1> DEFINE ts == call[conn]
  <1>1. conn \in Clients
    BY DEF Typed, TypeOK, Serving
  <1>2. ts \in Calls
    BY <1>1 DEF Typed, TypeOK
  <1>3. /\ Size(ts) \in Nat /\ Len(ts) \in Nat /\ ReadSize \in Nat
        /\ wire \in Nat /\ got \in Nat
    BY <1>2, SizeTyped, NumberAssumption DEF Typed, TypeOK
  <1>4. Size(ts) <= ReadSize * Len(ts)
    BY DEF Fits
  <1>5. wire + got = Size(ts) /\ (wire = 0 \/ got = ReadSize * (Len(ts) - left))
    BY DEF Reads
  <1>6. Len(ts) - left = Len(ts)
    BY <1>3
  <1>7. wire = 0 \/ got = ReadSize * Len(ts)
    BY <1>5, <1>6
  <1>8. ReadSize * Len(ts) \in Nat
    BY <1>3
  <1>9. got = Size(ts)
    BY <1>3, <1>4, <1>5, <1>7, <1>8
  <1> QED
    BY <1>1, <1>9, AllTaken

-----------------------------------------------------------------------------
(* The theorems.                                                           *)

\* Every variable keeps its type, for all token files, attempts and crashes
\* (code_eval_01/main.py 394-419, client.py 34-118).
THEOREM TypeCorrect == Spec => []TypeOK
  <1>1. Typed => TypeOK
    BY DEF Typed
  <1> QED
    BY <1>1, InitTyped, NextTyped, PTL DEF Spec

\* A call is processed once, and once more at most for every reset its client
\* saw, however often the app dies and the client calls (client.py 40-50).
THEOREM ChargedOncePerReset == Spec => []OncePerReset
  <1>1. Charges => OncePerReset
    BY DEF Charges, OncePerReset
  <1> QED
    BY <1>1, InitTyped, NextTyped, InitCharges, NextCharges, PTL DEF Spec

\* A client that is told of the completion has every counter of its session on
\* disk (code_eval_01/main.py 348-352, 419).
THEOREM CompletionIsStored == Spec => []CompletedIsStored
  <1>1. Debts => CompletedIsStored
    BY DEF Debts, CompletedIsStored
  <1> QED
    BY <1>1, InitTyped, NextTyped, InitCharges, NextCharges, PTL DEF Spec

\* Counting reads is counting lines for every record that fits its reads
\* (code_eval_01/main.py 409-412).
THEOREM FittingCallsAreWhole == Spec => []WholeCall
  BY InitTyped, NextTyped, InitReads, NextReads, ReadsWhole, PTL DEF Spec

=============================================================================
