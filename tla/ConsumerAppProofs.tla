------------------------- MODULE ConsumerAppProofs -------------------------
(***************************************************************************)
(* Proofs about ConsumerApp, for every set of data identifiers, clients,   *)
(* grants and token lists, every arity and every number of crashes.        *)
(***************************************************************************)
EXTENDS ConsumerApp, SequenceTheorems, TLAPS

(***************************************************************************)
(* What the operators the actions are built from return.                   *)
(***************************************************************************)

\* A readable file is a copy.
LEMMA WholeIsCopy ==
    ASSUME NEW f \in Files, f.file = "whole"
    PROVE  /\ f \in Copies
           /\ f.condition \in Conditions /\ f.condition.counter \in Int
           /\ f.cn \in Clients
  BY DEF Files, Absent, Torn, Copies, Conditions

\* Reading a copy and writing it back preserve types and contents.
LEMMA EntryType ==
    ASSUME NEW d \in Data, NEW copy \in Copies
    PROVE  /\ Entry(d, copy) \in Entries
           /\ Entry(d, copy).data = d
           /\ Entry(d, copy).condition = copy.condition
  BY DEF Entry, Copies, Entries

LEMMA CopyType ==
    ASSUME NEW e \in Entries
    PROVE  /\ CopyOf(e) \in Files
           /\ CopyOf(e).file = "whole"
           /\ CopyOf(e).condition = e.condition
  BY DEF CopyOf, Copies, Entries, Files

\* The provider's answer is a condition with the counter it granted.
LEMMA ProvidedType ==
    ASSUME NEW d \in Data, NEW t \in Nat
    PROVE  /\ ProvidedCondition(Grant[d], t) \in Conditions
           /\ ProvidedCondition(Grant[d], t).counter = Grant[d].counter
  <1> DEFINE g == Grant[d]
  <1>1. /\ g.counter \in Int /\ g.duration \in Int /\ g.expiration \in Int
        /\ g.location \in Places \cup {Anywhere, NoneText}
    BY GrantAssumption
  <1>2. Today(t) \in Int
    BY TicksPerDayAssumption DEF Today
  <1>3. Earlier(Today(t) + g.duration, g.expiration) \in Int
    BY <1>1, <1>2 DEF Earlier
  <1> QED
    BY <1>1, <1>3 DEF ProvidedCondition, Conditions

\* Decrementing changes the counter and nothing else.
LEMMA DecrementedType ==
    ASSUME NEW e \in Entries
    PROVE  /\ Decremented(e) \in Entries
           /\ Decremented(e).data = e.data
           /\ Decremented(e).condition.counter = e.condition.counter - 1
           /\ Decremented(e).condition.expiration = e.condition.expiration
           /\ Decremented(e).condition.location = e.condition.location
  BY DEF Decremented, Entries, Conditions

\* All the entries of a session at once.
LEMMA AllDecremented ==
    ASSUME NEW s \in Seq(Entries)
    PROVE  LET r == [i \in DOMAIN s |-> Decremented(s[i])]
           IN  /\ r \in Seq(Entries)
               /\ Len(r) = Len(s)
               /\ \A i \in 1..Len(s) : r[i] = Decremented(s[i])
  <1> DEFINE r == [i \in DOMAIN s |-> Decremented(s[i])]
  <1>1. Len(s) \in Nat /\ DOMAIN s = 1..Len(s)
    BY LenProperties
  <1>2. \A i \in 1..Len(s) : s[i] \in Entries
    BY ElementOfSeq
  <1>3. r \in [1..Len(s) -> Entries]
    BY <1>1, <1>2, DecrementedType
  <1>4. r \in Seq(Entries)
    BY <1>1, <1>3, SeqDef
  <1>5. DOMAIN r = 1..Len(s) /\ DOMAIN r = 1..Len(r) /\ Len(r) \in Nat
    BY <1>1, <1>3, <1>4, LenProperties
  <1>6. Len(r) = Len(s)
    BY <1>1, <1>5
  <1> QED
    BY <1>1, <1>4, <1>6

\* The first token, and the first entry, of a session.
LEMMA FirstToken ==
    ASSUME NEW s \in Seq(Tokens), s # <<>>
    PROVE  Head(s) \in Tokens /\ Head(s).data \in Data /\ Tail(s) \in Seq(Tokens)
  <1>1. Head(s) \in Tokens /\ Tail(s) \in Seq(Tokens)
    BY HeadTailProperties
  <1> QED
    BY <1>1 DEF Tokens

LEMMA FirstEntry ==
    ASSUME NEW s \in Seq(Entries), s # <<>>
    PROVE  /\ Head(s) \in Entries /\ Head(s).data \in Data
           /\ Head(s) = s[1] /\ 1 \in DOMAIN s
           /\ Tail(s) \in Seq(Entries)
           /\ \A i \in DOMAIN Tail(s) : i + 1 \in DOMAIN s /\ Tail(s)[i] = s[i + 1]
           /\ \A i \in DOMAIN s : i = 1 \/ (i - 1 \in DOMAIN Tail(s) /\ s[i] = Tail(s)[i - 1])
  <1>1. /\ Head(s) \in Entries /\ Tail(s) \in Seq(Entries)
        /\ Len(Tail(s)) = Len(s) - 1
        /\ \A i \in 1..Len(Tail(s)) : Tail(s)[i] = s[i + 1]
    BY HeadTailProperties
  <1>2. Len(s) \in Nat /\ Len(s) >= 1 /\ DOMAIN s = 1..Len(s)
    BY EmptySeq, LenProperties
  <1>3. DOMAIN Tail(s) = 1..Len(Tail(s))
    BY <1>1, LenProperties
  <1>4. Head(s) = s[1]
    OBVIOUS
  <1>5. Head(s).data \in Data
    BY <1>1 DEF Entries
  <1>6. \A i \in DOMAIN Tail(s) : i + 1 \in DOMAIN s /\ Tail(s)[i] = s[i + 1]
    BY <1>1, <1>2, <1>3
  <1>7. \A i \in DOMAIN s : i = 1 \/ (i - 1 \in DOMAIN Tail(s) /\ s[i] = Tail(s)[i - 1])
    BY <1>1, <1>2, <1>3
  <1> QED
    BY <1>1, <1>2, <1>4, <1>5, <1>6, <1>7

\* The last entry of a session.
LEMMA LastEntry ==
    ASSUME NEW s \in Seq(Entries), s # <<>>
    PROVE  /\ Len(s) \in 1..Len(s) /\ Len(s) \in Nat /\ Len(s) >= 1
           /\ s[Len(s)] \in Entries /\ s[Len(s)].data \in Data
           /\ s[Len(s)].condition \in Conditions
  <1>1. Len(s) \in Nat /\ Len(s) >= 1
    BY EmptySeq, LenProperties
  <1>2. s[Len(s)] \in Entries
    BY <1>1, ElementOfSeq
  <1> QED
    BY <1>1, <1>2 DEF Entries

\* The entries after one more has been appended.
LEMMA AppendedEntry ==
    ASSUME NEW s \in Seq(Entries), NEW e \in Entries
    PROVE  LET r == Append(s, e)
           IN  /\ r \in Seq(Entries) /\ r # <<>> /\ r[Len(r)] = e
               /\ \A i \in DOMAIN s : i \in DOMAIN r /\ r[i] = s[i]
               /\ \A i \in DOMAIN r : (i \in DOMAIN s /\ r[i] = s[i]) \/ r[i] = e
  <1> DEFINE r == Append(s, e)
  <1>1. /\ r \in Seq(Entries) /\ r # <<>> /\ Len(r) = Len(s) + 1
        /\ \A i \in 1..Len(s) : r[i] = s[i]
        /\ r[Len(s) + 1] = e
    BY AppendProperties
  <1>2. Len(s) \in Nat /\ DOMAIN s = 1..Len(s) /\ DOMAIN r = 1..Len(r)
    BY <1>1, LenProperties
  <1> QED
    BY <1>1, <1>2

\* The times the time service answers are natural numbers.
LEMMA TimesAreNat == Times \subseteq Nat
  BY BoundAssumption DEF Times

\* The checks answer with pairs, and a pair is never the empty tuple: whatever
\* the condition, the time and the place, the condition counts as met.
THEOREM ConditionAlwaysMet ==
    ASSUME NEW c, NEW now, NEW here
    PROVE  CheckConditionPhase(c, now, here) = <<TRUE, 0>>
  BY DEF CheckConditionPhase, CheckExpiration, CheckLocation, Not

\* So a check only ever hands its entry's data on.
LEMMA CheckMeets ==
    ASSUME Check
    PROVE  /\ pc = "check" /\ pc' = "token" /\ uc' = uc /\ isMet' = isMet
           /\ args' = args \/ args' = Append(args, uc[Len(uc)].data)
  BY ConditionAlwaysMet DEF Check

-----------------------------------------------------------------------------
(***************************************************************************)
(* Type correctness.  Shape is needed beside TypeOK: the actions that take *)
(* the last entry or the next token are only typed when there is one.      *)
(***************************************************************************)
Typed == TypeOK /\ Shape

LEMMA EmptySequences ==
    <<>> \in Seq(Tokens) /\ <<>> \in Seq(Entries) /\ <<>> \in Seq(Data)
  <1>1. \A S : <<>> \in Seq(S)
    BY EmptySeq
  <1> QED
    BY <1>1

LEMMA InitTyped == Init => Typed
  <1> SUFFICES ASSUME Init PROVE Typed
    OBVIOUS
  <1>1. cache \in [Data -> Files] /\ uses \in [Data -> Nat] /\ lost \in [Data -> Nat]
    BY DEF Init, Files
  <1>2. Shape
    BY DEF Init, Shape
  <1> QED
    BY <1>1, <1>2, EmptySequences, OwnerAssumption DEF Init, Typed, TypeOK

\* The sequences a session starts and ends with.
LEMMA IdleTyped ==
    ASSUME Typed, Idle \/ Die, cache' = cache,
           cnChecked' \in BOOLEAN, crashes' \in Nat,
           uses' = uses, lost' \in [Data -> Nat]
    PROVE  Typed'
  BY EmptySequences, OwnerAssumption DEF Typed, TypeOK, Shape, Idle, Die

LEMMA DieTyped ==
    ASSUME Typed, Die, crashes' \in Nat
    PROVE  Typed'
  <1>1. lost' \in [Data -> Nat]
    BY DEF Typed, TypeOK, Die
  <1> QED
    BY <1>1, IdleTyped DEF Die

LEMMA NextTyped == Typed /\ [Next]_vars => Typed'
  <1> SUFFICES ASSUME Typed, [Next]_vars PROVE Typed'
    OBVIOUS
  <1> USE DEF Typed
  <1>1. CASE Accept \/ Receive
    BY <1>1, TokenAssumption DEF Accept, Receive, TypeOK, Shape, history
  <1>2. CASE VerifyToken
    <2>1. /\ Head(lines) \in Tokens /\ Tail(lines) \in Seq(Tokens)
          /\ Append(todo, Head(lines)) \in Seq(Tokens)
      BY <1>2, HeadTailProperties, AppendProperties DEF VerifyToken, TypeOK
    <2> QED
      BY <1>2, <2>1 DEF VerifyToken, TypeOK, Shape, history
  <1>3. CASE TokensVerified
    BY <1>3 DEF TokensVerified, TypeOK, Shape, memory, history
  <1>4. CASE ReadCache
    <2> DEFINE d == Head(todo).data
    <2>1. d \in Data
      BY <1>4, FirstToken DEF ReadCache, TypeOK
    <2>2. cache[d] \in Copies
      BY <1>4, <2>1, WholeIsCopy DEF ReadCache, TypeOK
    <2>3. uc' \in Seq(Entries) /\ uc' # <<>>
      BY <1>4, <2>1, <2>2, EntryType, AppendProperties DEF ReadCache, TypeOK
    <2> QED
      BY <1>4, <2>3 DEF ReadCache, TypeOK, Shape, history
  <1>5. CASE Acquire
    <2> DEFINE d == Head(todo).data
    <2>0. PICK now \in Times :
            uc' = Append(uc, [data |-> d, cn |-> client, expired |-> FALSE,
                              condition |-> ProvidedCondition(Grant[d], now)])
      BY <1>5 DEF Acquire
    <2> DEFINE e == [data |-> d, cn |-> client, expired |-> FALSE,
                     condition |-> ProvidedCondition(Grant[d], now)]
    <2>1. d \in Data
      BY <1>5, FirstToken DEF Acquire, TypeOK
    <2>2. e \in Entries
      BY <2>1, TimesAreNat, ProvidedType DEF TypeOK, Entries
    <2>3. uc' \in Seq(Entries) /\ uc' # <<>>
      BY <2>0, <2>2, AppendedEntry DEF TypeOK
    <2>4. cache' \in [Data -> Files] /\ uses' \in [Data -> Nat] /\ lost' \in [Data -> Nat]
      BY <1>5, <2>1, SMTT(30) DEF Acquire, TypeOK, Files
    <2> QED
      BY <1>5, <2>3, <2>4 DEF Acquire, TypeOK, Shape
  <1>6. CASE WriteCache
    <2>1. uc[Len(uc)] \in Entries
      BY <1>6, LastEntry DEF WriteCache, TypeOK, Shape
    <2>2. cache' \in [Data -> Files]
      BY <1>6, <2>1, CopyType DEF WriteCache, TypeOK
    <2> QED
      BY <1>6, <2>2 DEF WriteCache, TypeOK, Shape, memory, history
  <1>7. CASE AcquireFails
    <2>1. todo' \in Seq(Tokens)
      BY <1>7, FirstToken DEF AcquireFails, TypeOK
    <2> QED
      BY <1>7, <2>1 DEF AcquireFails, TypeOK, Shape, history
  <1>8. CASE Check
    <2>1. todo' \in Seq(Tokens)
      BY <1>8, FirstToken DEF Check, TypeOK, Shape
    <2>2. uc[Len(uc)].data \in Data
      BY <1>8, LastEntry DEF Check, TypeOK, Shape
    <2>3. args' \in Seq(Data)
      <3>1. args \in Seq(Data) /\ Append(args, uc[Len(uc)].data) \in Seq(Data)
        BY <2>2, AppendProperties DEF TypeOK
      <3> QED
        BY <1>8, <3>1, CheckMeets
    <2> QED
      BY <1>8, <2>1, <2>3, CheckMeets DEF Check, TypeOK, Shape, history
  <1>10. CASE Process
    <2>1. uc' \in Seq(Entries)
      BY <1>10, AllDecremented DEF Process, TypeOK
    <2>2. uses' \in [Data -> Nat]
      BY <1>10 DEF Process, TypeOK
    <2> QED
      BY <1>10, <2>1, <2>2 DEF Process, TypeOK, Shape
  <1>11. CASE SendOrWithhold
    BY <1>11 DEF SendOrWithhold, TypeOK, Shape, memory, history
  <1>13. CASE Remove
    <2>1. Head(uc) \in Entries /\ uc' \in Seq(Entries)
      BY <1>13, FirstEntry DEF Remove, TypeOK
    <2>2. cache' \in [Data -> Files]
      BY <1>13 DEF Remove, TypeOK, Files
    <2> QED
      BY <1>13, <2>1, <2>2 DEF Remove, TypeOK, Shape, history
  <1>14. CASE OpenStore
    <2>1. cache' \in [Data -> Files]
      BY <1>14 DEF OpenStore, TypeOK, Files
    <2> QED
      BY <1>14, <2>1 DEF OpenStore, TypeOK, Shape, memory, history
  <1>15. CASE Store
    <2>1. Head(uc) \in Entries /\ uc' \in Seq(Entries)
      BY <1>15, FirstEntry DEF Store, TypeOK, Shape
    <2>2. cache' \in [Data -> Files]
      BY <1>15, <2>1, CopyType DEF Store, TypeOK
    <2> QED
      BY <1>15, <2>1, <2>2 DEF Store, TypeOK, Shape, history
  <1>16. CASE Finish
    BY <1>16, IdleTyped DEF Finish, TypeOK, history
  <1>17. CASE ReadTorn \/ AcceptFails
    BY <1>17, DieTyped DEF ReadTorn, AcceptFails, TypeOK
  <1>18. CASE WrongArity
    BY <1>18, DieTyped DEF WrongArity, TypeOK
  <1>19. CASE Restart
    BY <1>19, IdleTyped DEF Restart, TypeOK, history
  <1>20. CASE Crash
    <2>1. crashes' \in Nat
      BY <1>20 DEF Crash, TypeOK
    <2> QED
      BY <1>20, <2>1, DieTyped DEF Crash
  <1>23. CASE UNCHANGED vars
    BY <1>23 DEF vars, TypeOK, Shape, memory, history
  <1> QED
    BY <1>1, <1>2, <1>3, <1>4, <1>5, <1>6, <1>7, <1>8, <1>10, <1>11,
       <1>13, <1>14, <1>15, <1>16, <1>17, <1>18, <1>19, <1>20, <1>23 DEF Next, Step

\* Every variable keeps its type, whatever tokens the clients send: no step
\* of a session takes an entry or a token that is not there.
THEOREM TypeCorrect == Spec => []TypeOK
  <1>1. Spec => []Typed
    BY InitTyped, NextTyped, PTL DEF Spec
  <1>2. Typed => TypeOK
    BY DEF Typed
  <1> QED
    BY <1>1, <1>2, PTL

-----------------------------------------------------------------------------
(***************************************************************************)
(* Accounting.  A file may be one use behind while that use is pending,    *)
(* an entry in memory never is; a crash turns the pending use into a lost  *)
(* one.  BoundedUses is not inductive without the two, and they are not    *)
(* without every argument having an entry, whose counter limits the next   *)
(* use.                                                                    *)
(***************************************************************************)
LEMMA Numbers ==
    ASSUME Typed
    PROVE  /\ \A d \in Data : /\ uses[d] \in Nat /\ lost[d] \in Nat
                              /\ Grant[d].counter \in Int
                              /\ Loan(d) \in {0, 1}
                              /\ Budget(d) \in Int
                              /\ Budget(d) >= Grant[d].counter /\ Budget(d) >= 1
                              /\ cache[d].file = "whole" =>
                                     /\ cache[d] \in Copies
                                     /\ cache[d].condition.counter \in Int
           /\ \A i \in DOMAIN uc : /\ uc[i] \in Entries /\ uc[i].data \in Data
                                   /\ uc[i].condition.counter \in Int
           /\ crashes \in Nat
  <1>1. \A d \in Data : Grant[d].counter \in Int
    BY GrantAssumption
  <1>2. \A d \in Data : cache[d].file = "whole" =>
            /\ cache[d] \in Copies /\ cache[d].condition.counter \in Int
    BY WholeIsCopy DEF Typed, TypeOK
  <1>3. \A i \in DOMAIN uc : uc[i] \in Entries
    BY ElementOfSeq, LenProperties DEF Typed, TypeOK
  <1>4. \A e \in Entries : e.data \in Data /\ e.condition.counter \in Int
    BY DEF Entries, Conditions
  <1> QED
    BY <1>1, <1>2, <1>3, <1>4 DEF Typed, TypeOK, Loan, Budget

LEMMA InitAccounts == Init => Accounts
  <1> SUFFICES ASSUME Init PROVE Accounts
    OBVIOUS
  <1>1. \A d \in Data : cache[d].file # "whole"
    BY DEF Init, Absent
  <1>2. DOMAIN uc = {}
    BY DEF Init
  <1>3. BoundedUses
    BY GrantAssumption DEF Init, BoundedUses, Budget
  <1> QED
    BY <1>1, <1>2, <1>3
       DEF Init, Accounts, ArgumentsHaveEntries, FilesAccount, EntriesAccount

\* A step that touches neither files, entries, arguments nor history, and
\* does not cross the moment of charging.
LEMMA QuietAccounts ==
    ASSUME Typed, Accounts,
           UNCHANGED <<cache, uc, args, uses, lost, crashes>>,
           Charged' <=> Charged,
           pc' \in {"token", "write", "check"} =>
               pc \in {"token", "write", "check"} \/ args = <<>>
    PROVE  Accounts'
  <1>1. Pending' = Pending
    BY DEF Pending, Range
  <1>2. \A d \in Data : Loan(d)' = Loan(d)
    BY <1>1 DEF Loan
  <1>3. FilesAccount'
    BY <1>2 DEF Accounts, FilesAccount
  <1>4. EntriesAccount'
    BY DEF Accounts, EntriesAccount
  <1>5. ArgumentsHaveEntries'
    BY DEF Accounts, ArgumentsHaveEntries
  <1>6. BoundedUses'
    BY DEF Accounts, BoundedUses
  <1> QED
    BY <1>3, <1>4, <1>5, <1>6 DEF Accounts

\* The session's memory is emptied: what was pending is lost.
LEMMA ForgottenAccounts ==
    ASSUME Typed, Accounts, UNCHANGED <<cache, uses>>,
           uc' = <<>>, args' = <<>>, pc' \in {"accept", "down"},
           crashes' \in Nat,
           \/ lost' = lost /\ Pending = {} /\ crashes' >= crashes
           \/ /\ lost' = [d \in Data |-> IF d \in Pending THEN lost[d] + 1 ELSE lost[d]]
              /\ crashes' = crashes + 1
    PROVE  Accounts'
  <1>1. \A d \in Data : /\ lost'[d] \in Nat
                        /\ lost'[d] = lost[d] + Loan(d)
                        /\ lost'[d] <= lost[d] + (crashes' - crashes)
                        /\ Loan(d)' = 0
    <2>1. crashes \in Nat /\ \A d \in Data : lost[d] \in Nat
      BY Numbers
    <2>2. Pending' = {}
      BY DEF Pending, Charged
    <2>3. \A d \in Data : Loan(d)' = 0
      BY <2>2 DEF Loan
    <2>4. CASE lost' = lost /\ Pending = {} /\ crashes' >= crashes
      BY <2>1, <2>3, <2>4 DEF Loan
    <2>5. CASE /\ lost' = [d \in Data |-> IF d \in Pending THEN lost[d] + 1 ELSE lost[d]]
               /\ crashes' = crashes + 1
      BY <2>1, <2>3, <2>5 DEF Loan
    <2> QED
      BY <2>4, <2>5
  <1>2. FilesAccount'
    <2> SUFFICES ASSUME NEW d \in Data, cache[d].file = "whole"
                 PROVE  /\ uses[d] <= Grant[d].counter - cache[d].condition.counter
                                         + lost'[d] + Loan(d)'
                        /\ cache[d].condition.counter <= Grant[d].counter
                        /\ \/ cache[d].condition.counter >= 1
                           \/ cache[d].condition.counter = Grant[d].counter
      BY DEF FilesAccount
    <2>1. /\ uses[d] \in Nat /\ lost[d] \in Nat /\ Loan(d) \in {0, 1}
          /\ Grant[d].counter \in Int /\ cache[d].condition.counter \in Int
      BY Numbers
    <2>2. lost'[d] = lost[d] + Loan(d) /\ Loan(d)' = 0
      BY <1>1
    <2>3. /\ uses[d] <= Grant[d].counter - cache[d].condition.counter
                          + lost[d] + Loan(d)
          /\ cache[d].condition.counter <= Grant[d].counter
          /\ \/ cache[d].condition.counter >= 1
             \/ cache[d].condition.counter = Grant[d].counter
      BY DEF Accounts, FilesAccount
    <2> QED
      BY <2>1, <2>2, <2>3
  <1>3. BoundedUses'
    BY SMTT(30), <1>1, Numbers DEF Accounts, BoundedUses, Budget
  <1> QED
    BY <1>2, <1>3 DEF Accounts, EntriesAccount, ArgumentsHaveEntries

\* Resolving a token: the new entry is covered, and no file becomes readable.
LEMMA ResolvedAccounts ==
    ASSUME Typed, Accounts, pc = "token",
           pc' \in {"write", "check"}, args' = args, crashes' = crashes,
           NEW e \in Entries, uc' = Append(uc, e),
           \A d \in Data : /\ uses'[d] \in Nat /\ lost'[d] \in Nat
                           /\ \/ uses'[d] = uses[d] /\ lost'[d] = lost[d]
                              \/ uses'[d] = 0 /\ lost'[d] = 0
                           /\ cache'[d].file = "whole" =>
                                  /\ cache'[d] = cache[d]
                                  /\ uses'[d] = uses[d] /\ lost'[d] = lost[d],
           LET d == e.data
               c == e.condition.counter
           IN  /\ uses'[d] <= Grant[d].counter - c + lost'[d]
               /\ c <= Grant[d].counter
               /\ c >= 1 \/ c = Grant[d].counter
    PROVE  Accounts'
  <1>1. ~Charged /\ ~Charged'
    BY DEF Charged
  <1>2. \A d \in Data : Loan(d) = 0 /\ Loan(d)' = 0
    BY <1>1 DEF Loan, Pending
  <1>3. /\ \A i \in DOMAIN uc : i \in DOMAIN uc' /\ uc'[i] = uc[i]
        /\ \A i \in DOMAIN uc' : (i \in DOMAIN uc /\ uc'[i] = uc[i]) \/ uc'[i] = e
    BY AppendedEntry DEF Typed, TypeOK
  <1>4. ArgumentsHaveEntries'
    BY <1>3 DEF Accounts, ArgumentsHaveEntries
  <1>5. FilesAccount'
    <2> SUFFICES ASSUME NEW d \in Data, cache'[d].file = "whole"
                 PROVE  LET c == cache'[d].condition.counter
                        IN  /\ uses'[d] <= Grant[d].counter - c + lost'[d] + Loan(d)'
                            /\ c <= Grant[d].counter
                            /\ c >= 1 \/ c = Grant[d].counter
      BY DEF FilesAccount
    <2>1. Loan(d)' = Loan(d)
      BY <1>2
    <2> QED
      BY <2>1 DEF Accounts, FilesAccount
  <1>6. EntriesAccount'
    <2> SUFFICES ASSUME NEW i \in DOMAIN uc'
                 PROVE  LET d == uc'[i].data
                            c == uc'[i].condition.counter
                        IN  /\ uses'[d] <= Grant[d].counter - c + lost'[d]
                            /\ c <= Grant[d].counter
                            /\ c >= 1 \/ c = Grant[d].counter
      BY DEF EntriesAccount
    <2>1. CASE uc'[i] = e
      BY <2>1
    <2>2. CASE i \in DOMAIN uc /\ uc'[i] = uc[i]
      <3> DEFINE d == uc[i].data
                 c == uc[i].condition.counter
      <3>1. d \in Data /\ c \in Int /\ Grant[d].counter \in Int
        BY <2>2, Numbers
      <3>2. /\ uses[d] <= Grant[d].counter - c + lost[d]
            /\ c <= Grant[d].counter
            /\ c >= 1 \/ c = Grant[d].counter
        BY <1>1, <2>2 DEF Accounts, EntriesAccount
      <3>3. \/ uses'[d] = uses[d] /\ lost'[d] = lost[d]
            \/ uses'[d] = 0 /\ lost'[d] = 0
        BY <3>1
      <3> HIDE DEF d, c
      <3>4. /\ uses'[d] <= Grant[d].counter - c + lost'[d]
            /\ c <= Grant[d].counter
            /\ c >= 1 \/ c = Grant[d].counter
        BY <3>1, <3>2, <3>3
      <3> QED
        BY <2>2, <3>4 DEF d, c
    <2> QED
      BY <1>3, <2>1, <2>2
  <1>7. BoundedUses'
    <2> SUFFICES ASSUME NEW d \in Data
                 PROVE  uses'[d] <= Budget(d) + lost'[d] /\ lost'[d] <= crashes'
      BY DEF BoundedUses, Budget
    <2>1. Budget(d) \in Int /\ Budget(d) >= 1 /\ crashes \in Nat
      BY Numbers
    <2> QED
      BY <2>1 DEF Accounts, BoundedUses
  <1> QED
    BY <1>4, <1>5, <1>6, <1>7 DEF Accounts

\* Processing: each argument's entry has a use left, and charging every entry
\* covers it.
LEMMA ProcessAccounts == Typed /\ Accounts /\ Process => Accounts'
  <1> SUFFICES ASSUME Typed, Accounts, Process PROVE Accounts'
    OBVIOUS
  <1>1. /\ cache' = cache /\ args' = args /\ lost' = lost /\ crashes' = crashes
        /\ pc = "token" /\ pc' = "send" /\ isMet /\ isMet' = isMet
        /\ uc' = [i \in DOMAIN uc |-> Decremented(uc[i])]
        /\ uses' = [d \in Data |-> IF d \in Range(args) THEN uses[d] + 1 ELSE uses[d]]
    BY DEF Process
  <1>2. ~Charged /\ Charged'
    BY <1>1 DEF Charged
  <1>3. /\ DOMAIN uc' = DOMAIN uc
        /\ \A i \in DOMAIN uc :
             /\ uc'[i].data = uc[i].data
             /\ uc'[i].condition.counter = uc[i].condition.counter - 1
    BY <1>1, Numbers, DecrementedType
  <1>4. \A d \in Data : d \in Range(args) => \E i \in DOMAIN uc : uc[i].data = d
    BY <1>1 DEF Accounts, ArgumentsHaveEntries, Range
  <1>5. \A d \in Data : /\ Loan(d) = 0
                        /\ Loan(d)' = IF d \in Range(args) THEN 1 ELSE 0
    BY <1>1, <1>2, <1>3, <1>4 DEF Loan, Pending
  <1>6. FilesAccount'
    <2> SUFFICES ASSUME NEW d \in Data, cache[d].file = "whole"
                 PROVE  LET c == cache[d].condition.counter
                        IN  /\ uses'[d] <= Grant[d].counter - c + lost[d] + Loan(d)'
                            /\ c <= Grant[d].counter
                            /\ c >= 1 \/ c = Grant[d].counter
      BY <1>1 DEF FilesAccount
    <2>1. uses'[d] = uses[d] + Loan(d)' /\ Loan(d) = 0 /\ Loan(d)' \in {0, 1}
      BY <1>1, <1>5, Numbers
    <2>2. /\ uses[d] \in Nat /\ lost[d] \in Nat /\ Grant[d].counter \in Int
          /\ cache[d].condition.counter \in Int
      BY Numbers
    <2>3. LET c == cache[d].condition.counter
          IN  /\ uses[d] <= Grant[d].counter - c + lost[d] + Loan(d)
              /\ c <= Grant[d].counter
              /\ c >= 1 \/ c = Grant[d].counter
      BY DEF Accounts, FilesAccount
    <2> QED
      BY <2>1, <2>2, <2>3
  <1>7. EntriesAccount'
    <2> SUFFICES ASSUME NEW i \in DOMAIN uc
                 PROVE  LET d == uc[i].data
                            c == uc[i].condition.counter - 1
                        IN  /\ uses'[d] <= Grant[d].counter - c + lost[d]
                            /\ c <= Grant[d].counter
      BY <1>1, <1>2, <1>3 DEF EntriesAccount
    <2> DEFINE d == uc[i].data
               c == uc[i].condition.counter
    <2>1. /\ d \in Data /\ c \in Int /\ Grant[d].counter \in Int
          /\ uses[d] \in Nat /\ lost[d] \in Nat
      BY Numbers
    <2>2. uses[d] <= Grant[d].counter - c + lost[d] /\ c <= Grant[d].counter
      BY DEF Accounts, EntriesAccount
    <2>3. uses'[d] \in {uses[d], uses[d] + 1}
      BY <1>1, <2>1
    <2> HIDE DEF d, c
    <2>4. /\ uses'[d] <= Grant[d].counter - (c - 1) + lost[d]
          /\ c - 1 <= Grant[d].counter
      BY <2>1, <2>2, <2>3
    <2> QED
      BY <2>4 DEF d, c
  <1>8. BoundedUses'
    <2> SUFFICES ASSUME NEW d \in Data
                 PROVE  uses'[d] <= Budget(d) + lost[d] /\ lost[d] <= crashes
      BY <1>1 DEF BoundedUses, Budget
    <2>1. /\ uses[d] \in Nat /\ lost[d] \in Nat /\ Grant[d].counter \in Int
          /\ Budget(d) \in Int /\ Budget(d) >= Grant[d].counter /\ Budget(d) >= 1
      BY Numbers
    <2>2. uses[d] <= Budget(d) + lost[d] /\ lost[d] <= crashes
      BY DEF Accounts, BoundedUses
    <2>3. CASE d \notin Range(args)
      BY <1>1, <2>2, <2>3
    <2>4. CASE d \in Range(args)
      <3>1. PICK i \in DOMAIN uc : uc[i].data = d
        BY <1>4, <2>4
      <3> DEFINE c == uc[i].condition.counter
      <3>2. /\ uses[d] <= Grant[d].counter - c + lost[d]
            /\ c >= 1 \/ c = Grant[d].counter
        BY <1>2, <3>1 DEF Accounts, EntriesAccount
      <3>3. c \in Int
        BY Numbers
      <3>4. uses'[d] = uses[d] + 1
        BY <1>1, <2>4
      <3> HIDE DEF c
      <3> QED
        BY <2>1, <2>2, <3>2, <3>3, <3>4
    <2> QED
      BY <2>3, <2>4
  <1> QED
    BY <1>1, <1>6, <1>7, <1>8 DEF Accounts, ArgumentsHaveEntries

\* Writing back: an entry leaves memory when its file is gone or as good as it.
LEMMA SavedAccounts ==
    ASSUME Typed, Accounts, pc \in {"save", "store"}, pc' \in {"save", "store"},
           uc # <<>>, UNCHANGED <<args, isMet, uses, lost, crashes>>,
           NEW f \in Files, cache' = [cache EXCEPT ![Head(uc).data] = f],
           uc' = uc \/ uc' = Tail(uc),
           f.file = "whole" => /\ f.condition = Head(uc).condition
                               /\ ~ToRemove(Head(uc))
    PROVE  Accounts'
  <1> DEFINE h == Head(uc)
  <1>1. /\ h \in Entries /\ h.data \in Data /\ h = uc[1] /\ 1 \in DOMAIN uc
        /\ h.condition.counter \in Int
    BY FirstEntry, Numbers DEF Typed, TypeOK
  <1>2. /\ \A i \in DOMAIN uc' : \E j \in DOMAIN uc : uc'[i] = uc[j]
        /\ \A j \in DOMAIN uc : uc[j] = h \/ \E i \in DOMAIN uc' : uc'[i] = uc[j]
    <2>1. CASE uc' = uc
      BY <2>1
    <2>2. CASE uc' = Tail(uc)
      <3>1. /\ \A i \in DOMAIN uc' : i + 1 \in DOMAIN uc /\ uc'[i] = uc[i + 1]
            /\ \A j \in DOMAIN uc : j = 1 \/ (j - 1 \in DOMAIN uc' /\ uc[j] = uc'[j - 1])
        BY <2>2, FirstEntry DEF Typed, TypeOK
      <3> QED
        BY <1>1, <3>1
    <2> QED
      BY <2>1, <2>2
  <1>3. Charged' <=> Charged
    BY DEF Charged
  <1>4. \A d \in Data : d # h.data => Loan(d)' = Loan(d)
    BY <1>2, <1>3 DEF Loan, Pending
  <1>5. EntriesAccount'
    <2> SUFFICES ASSUME NEW i \in DOMAIN uc'
                 PROVE  LET d == uc'[i].data
                            c == uc'[i].condition.counter
                        IN  /\ uses[d] <= Grant[d].counter - c + lost[d]
                            /\ c <= Grant[d].counter
                            /\ Charged \/ c >= 1 \/ c = Grant[d].counter
      BY <1>3 DEF EntriesAccount
    <2>1. PICK j \in DOMAIN uc : uc'[i] = uc[j]
      BY <1>2
    <2> QED
      BY <2>1 DEF Accounts, EntriesAccount
  <1>6. FilesAccount'
    <2> SUFFICES ASSUME NEW d \in Data, cache'[d].file = "whole"
                 PROVE  LET c == cache'[d].condition.counter
                        IN  /\ uses[d] <= Grant[d].counter - c + lost[d] + Loan(d)'
                            /\ c <= Grant[d].counter
                            /\ c >= 1 \/ c = Grant[d].counter
      BY DEF FilesAccount
    <2>1. CASE d # h.data
      <3>1. cache'[d] = cache[d] /\ Loan(d)' = Loan(d)
        BY <1>4, <2>1 DEF Typed, TypeOK
      <3> QED
        BY <3>1 DEF Accounts, FilesAccount
    <2>2. CASE d = h.data
      <3> DEFINE c == h.condition.counter
      <3>1. cache'[d] = f
        BY <2>2 DEF Typed, TypeOK
      <3>2. cache'[d].condition.counter = c /\ c \in Int /\ c >= 1
        BY <1>1, <3>1 DEF ToRemove
      <3>3. uses[d] <= Grant[d].counter - c + lost[d] /\ c <= Grant[d].counter
        BY <1>1, <2>2 DEF Accounts, EntriesAccount
      <3>4. Loan(d)' \in {0, 1}
        BY DEF Loan
      <3>5. uses[d] \in Nat /\ lost[d] \in Nat /\ Grant[d].counter \in Int
        BY Numbers
      <3> HIDE DEF c
      <3> QED
        BY <3>2, <3>3, <3>4, <3>5
    <2> QED
      BY <2>1, <2>2
  <1> QED
    BY <1>5, <1>6 DEF Accounts, ArgumentsHaveEntries, BoundedUses

LEMMA NextAccounts == Typed /\ Accounts /\ [Next]_vars => Accounts'
  <1> SUFFICES ASSUME Typed, Accounts, [Next]_vars PROVE Accounts'
    OBVIOUS
  <1>1. CASE Accept \/ Receive
    BY <1>1, QuietAccounts DEF Accept, Receive, Charged, history
  <1>2. CASE VerifyToken
    BY <1>2, QuietAccounts DEF VerifyToken, Charged, history
  <1>3. CASE TokensVerified
    <2>1. args = <<>>
      BY <1>3 DEF TokensVerified, Typed, Shape
    <2> QED
      BY <1>3, <2>1, QuietAccounts DEF TokensVerified, Charged, memory, history
  <1>4. CASE ReadCache
    <2> DEFINE d == Head(todo).data
               e == Entry(d, cache[d])
    <2>1. d \in Data
      BY <1>4, FirstToken DEF ReadCache, Typed, TypeOK
    <2>2. cache[d].file = "whole" /\ cache[d] \in Copies
      BY <1>4, <2>1, Numbers DEF ReadCache
    <2>3. e \in Entries /\ e.data = d /\ e.condition = cache[d].condition
      BY <2>1, <2>2, EntryType
    <2>4. Loan(d) = 0
      BY <1>4 DEF ReadCache, Loan, Pending, Charged
    <2>5. /\ uses[d] \in Nat /\ lost[d] \in Nat /\ Grant[d].counter \in Int
          /\ cache[d].condition.counter \in Int
      BY <2>1, <2>2, Numbers
    <2>6. LET c == cache[d].condition.counter
          IN  /\ uses[d] <= Grant[d].counter - c + lost[d] + Loan(d)
              /\ c <= Grant[d].counter
              /\ c >= 1 \/ c = Grant[d].counter
      BY <2>1, <2>2 DEF Accounts, FilesAccount
    <2>7. /\ pc = "token" /\ pc' = "check" /\ args' = args /\ crashes' = crashes
          /\ cache' = cache /\ uses' = uses /\ lost' = lost /\ uc' = Append(uc, e)
      BY <1>4 DEF ReadCache, history
    <2>8. LET c == e.condition.counter
          IN  /\ uses'[e.data] <= Grant[e.data].counter - c + lost'[e.data]
              /\ c <= Grant[e.data].counter
              /\ c >= 1 \/ c = Grant[e.data].counter
      BY SMTT(30), <2>3, <2>4, <2>5, <2>6, <2>7
    <2>9. \A x \in Data : uses'[x] \in Nat /\ lost'[x] \in Nat
      BY <2>7, Numbers
    <2> HIDE DEF e, d
    <2> QED
      BY <2>3, <2>7, <2>8, <2>9, ResolvedAccounts
  <1>5. CASE Acquire
    <2> DEFINE d == Head(todo).data
    <2>0. PICK now \in Times :
            uc' = Append(uc, [data |-> d, cn |-> client, expired |-> FALSE,
                              condition |-> ProvidedCondition(Grant[d], now)])
      BY <1>5 DEF Acquire
    <2> DEFINE e == [data |-> d, cn |-> client, expired |-> FALSE,
                     condition |-> ProvidedCondition(Grant[d], now)]
    <2>1. d \in Data
      BY <1>5, FirstToken DEF Acquire, Typed, TypeOK
    <2>2. e \in Entries /\ e.data = d /\ e.condition.counter = Grant[d].counter
      BY <2>1, TimesAreNat, ProvidedType DEF Typed, TypeOK, Entries
    <2>3. /\ pc = "token" /\ pc' = "write" /\ args' = args /\ crashes' = crashes
          /\ uc' = Append(uc, e)
          /\ cache' = [cache EXCEPT ![d] = Torn]
          /\ uses' = [uses EXCEPT ![d] = 0] /\ lost' = [lost EXCEPT ![d] = 0]
      BY <1>5, <2>0 DEF Acquire
    <2>4. uses'[d] = 0 /\ lost'[d] = 0 /\ Grant[d].counter \in Int
      BY <2>1, <2>3, Numbers DEF Typed, TypeOK
    <2>5. \A x \in Data : /\ uses'[x] \in Nat /\ lost'[x] \in Nat
                          /\ \/ uses'[x] = uses[x] /\ lost'[x] = lost[x]
                             \/ uses'[x] = 0 /\ lost'[x] = 0
                          /\ cache'[x].file = "whole" =>
                                 /\ cache'[x] = cache[x]
                                 /\ uses'[x] = uses[x] /\ lost'[x] = lost[x]
      BY <2>3 DEF Typed, TypeOK, Torn
    <2> HIDE DEF e, d
    <2> QED
      BY <2>2, <2>3, <2>4, <2>5, ResolvedAccounts
  <1>6. CASE WriteCache
    <2> DEFINE e == uc[Len(uc)]
    <2>1. e \in Entries /\ e.data \in Data /\ Len(uc) \in DOMAIN uc
      BY <1>6, LastEntry, LenProperties DEF WriteCache, Typed, TypeOK, Shape
    <2>2. /\ cache' = [cache EXCEPT ![e.data] = CopyOf(e)]
          /\ pc = "write" /\ pc' = "check" /\ uc' = uc /\ args' = args
          /\ uses' = uses /\ lost' = lost /\ crashes' = crashes
      BY <1>6 DEF WriteCache, memory, history
    <2>3. CopyOf(e).condition = e.condition
      BY <2>1, CopyType
    <2>4. ~Charged /\ ~Charged'
      BY <2>2 DEF Charged
    <2>5. \A d \in Data : Loan(d) = 0 /\ Loan(d)' = 0
      BY <2>4 DEF Loan, Pending
    <2>6. FilesAccount'
      <3> SUFFICES ASSUME NEW d \in Data, cache'[d].file = "whole"
                   PROVE  LET c == cache'[d].condition.counter
                          IN  /\ uses[d] <= Grant[d].counter - c + lost[d] + Loan(d)'
                              /\ c <= Grant[d].counter
                              /\ c >= 1 \/ c = Grant[d].counter
        BY <2>2 DEF FilesAccount
      <3>1. Loan(d)' = 0 /\ Loan(d) = 0
        BY <2>5
      <3>2. CASE d # e.data
        <4>1. cache'[d] = cache[d]
          BY <2>2, <3>2 DEF Typed, TypeOK
        <4> QED
          BY <3>1, <4>1 DEF Accounts, FilesAccount
      <3>3. CASE d = e.data
        <4> DEFINE c == e.condition.counter
        <4>1. cache'[d].condition.counter = c
          BY <2>2, <2>3, <3>3 DEF Typed, TypeOK
        <4>2. /\ uses[d] <= Grant[d].counter - c + lost[d]
              /\ c <= Grant[d].counter
              /\ c >= 1 \/ c = Grant[d].counter
          BY <2>1, <2>4, <3>3 DEF Accounts, EntriesAccount
        <4>3. /\ uses[d] \in Nat /\ lost[d] \in Nat /\ Grant[d].counter \in Int
              /\ c \in Int
          BY <2>1, Numbers
        <4> HIDE DEF c
        <4> QED
          BY <3>1, <4>1, <4>2, <4>3
      <3> QED
        BY <3>2, <3>3
    <2>7. EntriesAccount'
      BY <2>2, <2>4 DEF Accounts, EntriesAccount
    <2> QED
      BY <2>2, <2>6, <2>7 DEF Accounts, ArgumentsHaveEntries, BoundedUses
  <1>7. CASE AcquireFails
    BY <1>7, QuietAccounts DEF AcquireFails, Charged, history
  <1>8. CASE Check
    <2> DEFINE e == uc[Len(uc)]
    <2>1. /\ pc = "check" /\ pc' = "token"
          /\ args' = args \/ args' = Append(args, e.data)
          /\ UNCHANGED <<cache, uc, uses, lost, crashes>>
      BY <1>8, CheckMeets DEF Check, history
    <2>2. e \in Entries /\ e.data \in Data /\ Len(uc) \in DOMAIN uc
      BY <1>8, LastEntry, LenProperties DEF Check, Typed, TypeOK, Shape
    <2>3. \A k \in DOMAIN args' : (k \in DOMAIN args /\ args'[k] = args[k]) \/ args'[k] = e.data
      <3>1. CASE args' = args
        BY <3>1
      <3>2. CASE args' = Append(args, e.data)
        <4>1. /\ args' \in Seq(Data) /\ Len(args') = Len(args) + 1
              /\ \A k \in 1..Len(args) : args'[k] = args[k]
              /\ args'[Len(args) + 1] = e.data
          BY <2>2, <3>2, AppendProperties DEF Typed, TypeOK
        <4>2. /\ Len(args) \in Nat /\ DOMAIN args = 1..Len(args)
              /\ DOMAIN args' = 1..Len(args')
          BY <4>1, LenProperties DEF Typed, TypeOK
        <4> QED
          BY <4>1, <4>2
      <3> QED
        BY <2>1, <3>1, <3>2
    <2>4. ArgumentsHaveEntries'
      BY <2>1, <2>2, <2>3 DEF Accounts, ArgumentsHaveEntries
    <2>5. ~Charged /\ ~Charged'
      BY <2>1 DEF Charged
    <2>6. \A d \in Data : Loan(d) = 0 /\ Loan(d)' = 0
      BY <2>5 DEF Loan, Pending
    <2>7. FilesAccount' /\ EntriesAccount' /\ BoundedUses'
      BY <2>1, <2>5, <2>6 DEF Accounts, FilesAccount, EntriesAccount, BoundedUses
    <2> QED
      BY <2>4, <2>7 DEF Accounts
  <1>10. CASE Process
    BY <1>10, ProcessAccounts
  <1>11. CASE SendOrWithhold
    BY <1>11, QuietAccounts DEF SendOrWithhold, Charged, memory, history
  <1>13. CASE Remove
    <2>1. Absent \in Files /\ Absent.file # "whole"
      BY DEF Files, Absent
    <2> QED
      BY <1>13, <2>1, SavedAccounts DEF Remove, history
  <1>14. CASE OpenStore
    <2>1. Torn \in Files /\ Torn.file # "whole"
      BY DEF Files, Torn
    <2> QED
      BY <1>14, <2>1, SavedAccounts DEF OpenStore, memory, history
  <1>15. CASE Store
    <2> DEFINE f == CopyOf(Head(uc))
    <2>1. Head(uc) \in Entries
      BY <1>15, FirstEntry DEF Store, Typed, TypeOK, Shape
    <2>2. f \in Files /\ f.condition = Head(uc).condition
      BY <2>1, CopyType
    <2>3. ~ToRemove(Head(uc))
      BY <1>15 DEF Store, Typed, Shape
    <2> QED
      BY <1>15, <2>2, <2>3, SavedAccounts DEF Store, Typed, Shape, history
  <1>16. CASE Finish
    <2>1. Pending = {}
      BY <1>16 DEF Finish, Pending
    <2>2. crashes' = crashes /\ crashes \in Nat
      BY <1>16, Numbers DEF Finish
    <2> QED
      BY <1>16, <2>1, <2>2, ForgottenAccounts DEF Finish, Idle, history
  <1>17. CASE ReadTorn \/ AcceptFails \/ WrongArity
    <2>1. Pending = {}
      BY <1>17 DEF ReadTorn, AcceptFails, WrongArity, Pending, Charged
    <2>2. crashes' = crashes /\ crashes \in Nat
      BY <1>17, Numbers DEF ReadTorn, AcceptFails, WrongArity
    <2>3. lost' = lost
      BY <1>17, <2>1 DEF ReadTorn, AcceptFails, WrongArity, Die, Typed, TypeOK
    <2> QED
      BY <1>17, <2>1, <2>2, <2>3, ForgottenAccounts DEF ReadTorn, AcceptFails, WrongArity, Die
  <1>19. CASE Restart
    <2>1. Pending = {}
      BY <1>19 DEF Restart, Pending, Charged
    <2>2. crashes' = crashes /\ crashes \in Nat
      BY <1>19, Numbers DEF Restart
    <2> QED
      BY <1>19, <2>1, <2>2, ForgottenAccounts DEF Restart, Idle, history
  <1>20. CASE Crash
    <2>1. crashes' = crashes + 1 /\ crashes' \in Nat
      BY <1>20, Numbers DEF Crash
    <2> QED
      BY <1>20, <2>1, ForgottenAccounts DEF Crash, Die
  <1>23. CASE UNCHANGED vars
    BY <1>23, QuietAccounts DEF vars, Charged, memory, history
  <1> QED
    BY <1>1, <1>2, <1>3, <1>4, <1>5, <1>6, <1>7, <1>8, <1>10, <1>11,
       <1>13, <1>14, <1>15, <1>16, <1>17, <1>19, <1>20, <1>23 DEF Next, Step

\* One copy of the data is used at most as often as its counter says, plus one
\* use for each crash: for every grant, arity and choice of tokens.
THEOREM UsesAreBounded == Spec => []BoundedUses
  <1>1. Init => Typed /\ Accounts
    BY InitTyped, InitAccounts
  <1>2. Typed /\ Accounts /\ [Next]_vars => (Typed /\ Accounts)'
    BY NextTyped, NextAccounts
  <1>3. Accounts => BoundedUses
    BY DEF Accounts
  <1> QED
    BY <1>1, <1>2, <1>3, PTL DEF Spec

\* Between sessions the files account for every use but the lost ones.
THEOREM FilesAreAccounts == Spec => []FilesAccountForUses
  <1>1. Init => Typed /\ Accounts
    BY InitTyped, InitAccounts
  <1>2. Typed /\ Accounts /\ [Next]_vars => (Typed /\ Accounts)'
    BY NextTyped, NextAccounts
  <1>3. Typed /\ Accounts => FilesAccountForUses
    <2> SUFFICES ASSUME Typed, Accounts, pc = "accept",
                        NEW d \in Data, cache[d].file = "whole"
                 PROVE  LET c == cache[d].condition.counter
                        IN  /\ uses[d] <= Grant[d].counter - c + lost[d]
                            /\ c >= 1 \/ c = Grant[d].counter
      BY DEF FilesAccountForUses
    <2>1. Loan(d) = 0
      BY DEF Loan, Pending, Charged
    <2>2. /\ uses[d] \in Nat /\ lost[d] \in Nat /\ Grant[d].counter \in Int
          /\ cache[d].condition.counter \in Int
      BY Numbers
    <2>3. LET c == cache[d].condition.counter
          IN  /\ uses[d] <= Grant[d].counter - c + lost[d] + Loan(d)
              /\ c >= 1 \/ c = Grant[d].counter
      BY DEF Accounts, FilesAccount
    <2> QED
      BY <2>1, <2>2, <2>3
  <1> QED
    BY <1>1, <1>2, <1>3, PTL DEF Spec
-----------------------------------------------------------------------------
(***************************************************************************)
(* Torn files.                                                             *)
(***************************************************************************)
LEMMA NextTorn == Typed /\ TornOnlyByCrash /\ [Next]_vars => TornOnlyByCrash'
  <1> SUFFICES ASSUME Typed, TornOnlyByCrash, [Next]_vars,
                      NEW d \in Data, cache'[d].file = "torn"
               PROVE  \/ crashes' > 0
                      \/ pc' = "write" /\ uc'[Len(uc')].data = d
                      \/ pc' = "store" /\ Head(uc').data = d
    BY DEF TornOnlyByCrash
  <1> USE DEF Typed
  <1>1. crashes \in Nat /\ (crashes > 0 => crashes' > 0)
    BY DEF TypeOK, Next, Step, vars, history, Accept, Receive, VerifyToken, TokensVerified,
           ReadCache, Acquire, WriteCache, AcquireFails, Check, Process,
           SendOrWithhold, Remove, OpenStore, Store, Finish, ReadTorn, AcceptFails, WrongArity,
           Restart, Crash
  <1>2. CASE cache[d].file # "torn" \/ pc \in {"write", "store"}
    <2>1. CASE Acquire
      <3>0. PICK now \in Times :
              uc' = Append(uc, [data |-> Head(todo).data, cn |-> client, expired |-> FALSE,
                                condition |-> ProvidedCondition(Grant[Head(todo).data], now)])
        BY <2>1 DEF Acquire
      <3> DEFINE e == [data |-> Head(todo).data, cn |-> client, expired |-> FALSE,
                       condition |-> ProvidedCondition(Grant[Head(todo).data], now)]
      <3>1. Head(todo).data \in Data
        BY <2>1, FirstToken DEF Acquire, TypeOK
      <3>2. e \in Entries
        BY <3>1, TimesAreNat, ProvidedType DEF TypeOK, Entries
      <3>3. uc'[Len(uc')] = e
        BY <3>0, <3>2, AppendedEntry DEF TypeOK
      <3>4. d = Head(todo).data
        BY <1>2, <2>1, <3>1 DEF Acquire, TypeOK
      <3> QED
        BY <2>1, <3>3, <3>4 DEF Acquire
    <2>2. CASE WriteCache
      <3>1. uc[Len(uc)] \in Entries
        BY <2>2, LastEntry DEF WriteCache, TypeOK, Shape
      <3>2. CopyOf(uc[Len(uc)]).file = "whole"
        BY <3>1, CopyType
      <3> QED
        BY <1>1, <2>2, <3>2 DEF WriteCache, TypeOK, TornOnlyByCrash
    <2>3. CASE OpenStore
      BY <1>2, <2>3 DEF OpenStore, TypeOK, memory
    <2>4. CASE Store
      <3>1. Head(uc) \in Entries
        BY <2>4, FirstEntry DEF Store, TypeOK, Shape
      <3>2. CopyOf(Head(uc)).file = "whole"
        BY <3>1, CopyType
      <3> QED
        BY <1>1, <2>4, <3>2 DEF Store, TypeOK, TornOnlyByCrash
    <2>5. CASE Remove
      BY <1>2, <2>5 DEF Remove, TypeOK, Absent
    <2>6. CASE Crash
      BY <2>6, <1>1 DEF Crash
    <2>7. CASE UNCHANGED vars
      BY <1>1, <1>2, <2>7 DEF vars, memory, TornOnlyByCrash
    <2>8. CASE \/ Accept \/ Receive \/ VerifyToken \/ TokensVerified \/ ReadCache \/ AcquireFails
               \/ Check \/ Process \/ SendOrWithhold \/ Finish
               \/ ReadTorn \/ AcceptFails \/ WrongArity \/ Restart
      BY <1>1, <1>2, <2>8 DEF Accept, Receive, VerifyToken, TokensVerified, ReadCache,
         AcquireFails, Check, Process, SendOrWithhold, Finish, ReadTorn, AcceptFails,
         WrongArity, Restart, Die
    <2> QED
      BY <2>1, <2>2, <2>3, <2>4, <2>5, <2>6, <2>7, <2>8 DEF Next, Step
  <1>3. CASE cache[d].file = "torn" /\ pc \notin {"write", "store"}
    BY <1>1, <1>3 DEF TornOnlyByCrash
  <1> QED
    BY <1>2, <1>3

\* No session, complete or not, leaves an unreadable file behind unless the
\* process crashed.
THEOREM TornFilesComeFromCrashes == Spec => []TornOnlyByCrash
  <1>1. Init => Typed /\ TornOnlyByCrash
    BY InitTyped DEF Init, TornOnlyByCrash, Absent
  <1>2. Typed /\ TornOnlyByCrash /\ [Next]_vars => (Typed /\ TornOnlyByCrash)'
    BY NextTyped, NextTorn
  <1> QED
    BY <1>1, <1>2, PTL DEF Spec

-----------------------------------------------------------------------------
(***************************************************************************)
(* The sessions implement the purses of UsageControl.                      *)
(***************************************************************************)

LEMMA ArgsInData == Typed => Range(args) \in SUBSET Data
  <1> SUFFICES ASSUME Typed PROVE \A i \in DOMAIN args : args[i] \in Data
    BY DEF Range
  <1> QED
    BY ElementOfSeq, LenProperties DEF Typed, TypeOK

LEMMA PendingInData == Typed => Pending \in SUBSET Data
  BY ArgsInData DEF Pending

LEMMA InitPurse == Init => Purse!Init
  <1> SUFFICES ASSUME Init PROVE Purse!Init
    OBVIOUS
  <1>1. Pending = {}
    BY DEF Init, Pending, Charged
  <1>2. \A d \in Data : Left(d) = Budget(d)
    <2> SUFFICES ASSUME NEW d \in Data PROVE Left(d) = Budget(d)
      OBVIOUS
    <2>1. Budget(d) \in Int /\ lost[d] = 0 /\ uses[d] = 0
      BY Numbers, InitTyped DEF Init
    <2> QED
      BY <2>1 DEF Left
  <1> QED
    BY <1>1, <1>2 DEF Init, Purse!Init

\* A step that neither uses nor loses anything settles what is no longer
\* pending, and is a stutter when nothing was.
LEMMA SettlingStep ==
    ASSUME Typed, UNCHANGED <<uses, lost, crashes>>, Pending' \subseteq Pending
    PROVE  Purse!Next
  <1> DEFINE S == Pending \ Pending'
  <1>1. S \in SUBSET Data
    BY PendingInData
  <1>2. Pending' = Pending \ S
    OBVIOUS
  <1>3. [d \in Data |-> Left(d)]' = [d \in Data |-> Left(d)]
    BY DEF Left, Budget
  <1>4. Purse!Settle(S)
    BY <1>2, <1>3 DEF Purse!Settle
  <1> QED
    BY <1>1, <1>4 DEF Purse!Next

\* Processing takes one use of each argument, and each had one left.
LEMMA ProcessUses == Typed /\ Accounts /\ Process => Purse!Next
  <1> SUFFICES ASSUME Typed, Accounts, Process PROVE Purse!Next
    OBVIOUS
  <1> DEFINE S == Range(args)
  <1>1. /\ args' = args /\ lost' = lost /\ crashes' = crashes
        /\ pc = "token" /\ pc' = "send" /\ isMet /\ isMet' = isMet
        /\ uc' = [i \in DOMAIN uc |-> Decremented(uc[i])]
        /\ uses' = [d \in Data |-> IF d \in S THEN uses[d] + 1 ELSE uses[d]]
    BY DEF Process
  <1>2. S \in SUBSET Data
    BY ArgsInData
  <1>3. Pending = {} /\ Pending' = S
    <2>1. /\ DOMAIN uc' = DOMAIN uc
          /\ \A i \in DOMAIN uc : uc'[i].data = uc[i].data
      BY <1>1, Numbers, DecrementedType
    <2>2. \A d \in S : \E i \in DOMAIN uc : uc[i].data = d
      BY <1>1 DEF Accounts, ArgumentsHaveEntries, Range
    <2>3. ~Charged /\ Charged'
      BY <1>1 DEF Charged
    <2> QED
      BY <1>1, <2>1, <2>2, <2>3 DEF Pending
  <1>4. \A d \in Data : Left(d)' = IF d \in S THEN Left(d) - 1 ELSE Left(d)
    <2> SUFFICES ASSUME NEW d \in Data
                 PROVE  Left(d)' = IF d \in S THEN Left(d) - 1 ELSE Left(d)
      OBVIOUS
    <2>1. Budget(d) \in Int /\ lost[d] \in Int /\ uses[d] \in Int
      BY Numbers
    <2>2. uses'[d] = IF d \in S THEN uses[d] + 1 ELSE uses[d]
      BY <1>1
    <2> QED
      BY <1>1, <2>1, <2>2 DEF Left, Budget
  <1>5. \A d \in S : Left(d) >= 1
    <2> SUFFICES ASSUME NEW d \in S PROVE Left(d) >= 1
      OBVIOUS
    <2>1. uses'[d] <= Budget(d) + lost[d]
      BY <1>1, <1>2, ProcessAccounts DEF Accounts, BoundedUses, Budget
    <2>2. uses'[d] = uses[d] + 1
      BY <1>1, <1>2
    <2>3. Budget(d) \in Int /\ lost[d] \in Int /\ uses[d] \in Int
      BY <1>2, Numbers
    <2> QED
      BY <2>1, <2>2, <2>3 DEF Left
  <1>6. Purse!Use(S)
    BY <1>1, <1>2, <1>3, <1>4, <1>5 DEF Purse!Use
  <1> QED
    BY <1>2, <1>6 DEF Purse!Next

\* Receiving data anew fills its purse.
LEMMA AcquireFills == Typed /\ Acquire => Purse!Next
  <1> SUFFICES ASSUME Typed, Acquire PROVE Purse!Next
    OBVIOUS
  <1> DEFINE e == Head(todo).data
  <1>1. /\ pc = "token" /\ pc' = "write" /\ crashes' = crashes
        /\ uses' = [uses EXCEPT ![e] = 0] /\ lost' = [lost EXCEPT ![e] = 0]
    BY DEF Acquire
  <1>2. e \in Data
    BY FirstToken DEF Acquire, Typed, TypeOK
  <1>3. Pending = {} /\ Pending' = {}
    BY <1>1 DEF Pending, Charged
  <1>4. \A d \in Data : Left(d)' = IF d = e THEN Budget(d) ELSE Left(d)
    <2> SUFFICES ASSUME NEW d \in Data
                 PROVE  Left(d)' = IF d = e THEN Budget(d) ELSE Left(d)
      OBVIOUS
    <2>1. Budget(d) \in Int /\ uses \in [Data -> Nat] /\ lost \in [Data -> Nat]
      BY Numbers DEF Typed, TypeOK
    <2>2. /\ uses'[d] = IF d = e THEN 0 ELSE uses[d]
          /\ lost'[d] = IF d = e THEN 0 ELSE lost[d]
      BY <1>1, <2>1
    <2> QED
      BY <2>1, <2>2 DEF Left, Budget
  <1>5. Purse!Fetch(e)
    BY <1>1, <1>2, <1>3, <1>4 DEF Purse!Fetch
  <1> QED
    BY <1>2, <1>5 DEF Purse!Next

\* A crash gives back what is pending.
LEMMA CrashUndoes == Typed /\ Crash => Purse!Next
  <1> SUFFICES ASSUME Typed, Crash PROVE Purse!Next
    OBVIOUS
  <1>1. /\ pc' = "down" /\ uses' = uses /\ crashes' = crashes + 1
        /\ lost' = [d \in Data |-> IF d \in Pending THEN lost[d] + 1 ELSE lost[d]]
    BY DEF Crash, Die
  <1>2. Pending' = {}
    BY <1>1 DEF Pending, Charged
  <1>3. \A d \in Data : Left(d)' = IF d \in Pending THEN Left(d) + 1 ELSE Left(d)
    <2> SUFFICES ASSUME NEW d \in Data
                 PROVE  Left(d)' = IF d \in Pending THEN Left(d) + 1 ELSE Left(d)
      OBVIOUS
    <2>1. Budget(d) \in Int /\ lost[d] \in Int /\ uses[d] \in Int
      BY Numbers
    <2>2. lost'[d] = IF d \in Pending THEN lost[d] + 1 ELSE lost[d]
      BY <1>1
    <2> QED
      BY <1>1, <2>1, <2>2 DEF Left, Budget
  <1>4. Purse!Fault
    BY <1>1, <1>2, <1>3 DEF Purse!Fault
  <1> QED
    BY <1>4 DEF Purse!Next

\* Writing back settles the entry written and no other.
LEMMA SavedPending ==
    ASSUME Typed, uc # <<>>, uc' = Tail(uc), args' = args, isMet' = isMet,
           pc \in {"save", "store"}
    PROVE  Pending' \subseteq Pending
  <1>1. \A i \in DOMAIN uc' : i + 1 \in DOMAIN uc /\ uc'[i] = uc[i + 1]
    BY FirstEntry DEF Typed, TypeOK
  <1>2. Charged' => Charged
    BY DEF Charged
  <1> QED
    BY <1>1, <1>2 DEF Pending

LEMMA NextPurse == Typed /\ Accounts /\ [Next]_vars => [Purse!Next]_(Purse!vars)
  <1> SUFFICES ASSUME Typed, Accounts, [Next]_vars PROVE Purse!Next
    OBVIOUS
  <1>1. CASE Process
    BY <1>1, ProcessUses
  <1>2. CASE Acquire
    BY <1>2, AcquireFills
  <1>3. CASE Crash
    BY <1>3, CrashUndoes
  <1>4. CASE Remove \/ Store
    <2>1. /\ uc # <<>> /\ uc' = Tail(uc) /\ pc \in {"save", "store"}
          /\ UNCHANGED <<args, isMet, uses, lost, crashes>>
      BY <1>4 DEF Remove, Store, history, Typed, Shape
    <2>2. Pending' \subseteq Pending
      BY <2>1, SavedPending
    <2> QED
      BY <2>1, <2>2, SettlingStep
  <1>5. CASE Accept \/ Receive \/ VerifyToken \/ TokensVerified \/ ReadCache \/ WriteCache
             \/ AcquireFails \/ Check
    <2>1. Pending' = {} /\ UNCHANGED <<uses, lost, crashes>>
      BY <1>5 DEF Accept, Receive, VerifyToken, TokensVerified, ReadCache, WriteCache,
                  AcquireFails, Check, Pending, Charged, history
    <2> QED
      BY <2>1, SettlingStep
  <1>6. CASE Finish \/ Restart
    <2>1. Pending' = {} /\ UNCHANGED <<uses, lost, crashes>>
      BY <1>6 DEF Finish, Restart, Idle, Pending, Charged, memory,
                  history
    <2> QED
      BY <2>1, SettlingStep
  <1>7. CASE ReadTorn \/ AcceptFails \/ WrongArity
    <2>1. Pending = {} /\ Pending' = {} /\ UNCHANGED <<uses, crashes>>
      BY <1>7 DEF ReadTorn, AcceptFails, WrongArity, Die, Pending, Charged
    <2>2. lost' = lost
      BY <1>7, <2>1 DEF ReadTorn, AcceptFails, WrongArity, Die, Typed, TypeOK
    <2> QED
      BY <2>1, <2>2, SettlingStep
  <1>8. CASE SendOrWithhold \/ OpenStore \/ UNCHANGED vars
    <2>1. /\ UNCHANGED <<uc, args, isMet, uses, lost, crashes>>
          /\ Charged' => Charged
      BY <1>8 DEF SendOrWithhold, OpenStore, vars, memory, history, Charged
    <2>2. Pending' \subseteq Pending
      BY <2>1 DEF Pending
    <2> QED
      BY <2>1, <2>2, SettlingStep
  <1> QED
    BY <1>1, <1>2, <1>3, <1>4, <1>5, <1>6, <1>7, <1>8 DEF Next, Step

\* The sessions implement the purses: every step of the enclave is a use that
\* was paid for, a charge written back, a purse filled, or the undoing of a
\* pending charge by a crash, for every grant, arity and choice of tokens.
THEOREM SessionsImplementPurses == Spec => ImplementsUsageControl
  <1>1. Spec => [](Typed /\ Accounts)
    <2>1. Init => Typed /\ Accounts
      BY InitTyped, InitAccounts
    <2>2. Typed /\ Accounts /\ [Next]_vars => (Typed /\ Accounts)'
      BY NextTyped, NextAccounts
    <2> QED
      BY <2>1, <2>2, PTL DEF Spec
  <1> QED
    BY <1>1, InitPurse, NextPurse, PTL DEF Spec, ImplementsUsageControl, Purse!Spec

=============================================================================
