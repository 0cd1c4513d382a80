------------------------ MODULE WalletDatabaseProofs ------------------------
(***************************************************************************)
(* However calls overlap, reads fail and writes are refused, only the      *)
(* write of an overtaken call takes back what another call has saved; when *)
(* the calls on one key do not overlap there is none, and the database     *)
(* implements AtomicStore.  For every set of callers, identifiers and      *)
(* values.                                                                 *)
(***************************************************************************)
EXTENDS WalletDatabase, WellFoundedInduction, SequenceTheorems, TLAPS

\* The requests the functions make.
Requests == UNION {{cl[i] : i \in DOMAIN cl} : cl \in Calls}

\* The values of a key.
Kind(k) == CASE k = "commitments"  -> Seq(Commitments)
             [] k = "transactions" -> Seq(Transactions)
             [] OTHER              -> [Fields(k) -> Values]

\* An update makes a value of the key of a value of the key.
Fits(u, k) == \A old \in Kind(k) : Apply(u, old) \in Kind(k)

\* What a call has to do: a read is followed by one request, the write of what it
\* read; a write writes a value of its key.
RequestsOK(s) ==
    /\ \A i \in 1..Len(s) : s[i].key \in Keys /\ s[i].act \in {"read", "write"}
    /\ \A i \in 1..Len(s) : s[i].act = "read" =>
          i = Len(s) - 1 /\ s[Len(s)].act = "write" /\ s[Len(s)].key = s[i].key
    /\ \A i \in 1..Len(s) : s[i].act = "write" => Fits(s[i].u, s[i].key)

CallOK(s) ==
    /\ s \in Seq({s[i] : i \in DOMAIN s}) /\ s # <<>>
    /\ RequestsOK(s)
    /\ Len(s) = 1 => s[1].act = "write"

-----------------------------------------------------------------------------
(***************************************************************************)
(* What the updates make of a value.                                       *)
(***************************************************************************)
\* A non-empty set of natural numbers has a least element.
LEMMA LeastElement ==
    ASSUME NEW S \in SUBSET Nat, S # {}
    PROVE  \E x \in S : \A y \in S : x <= y
<1>1. PICK x \in S : \A y \in S : ~ (<<y, x>> \in OpToRel(<, Nat))
  BY WFMin, NatLessThanWellFounded
<1>2. \A y \in Nat : y < x => <<y, x>> \in OpToRel(<, Nat)
  BY Zenon DEF OpToRel
<1>3. \A y \in S : ~ (y < x)
  BY <1>1, <1>2, Zenon
<1> QED BY <1>3

\* Joins(f, g, n): f is the recursive function that FlattenSeq defines on the
\* first n sequences of g.
Joins(f, g, n) == f = [i \in 1..n |-> IF i = 1 THEN g[i] ELSE f[i - 1] \o g[i]]

\* There is such a function for every n.
LEMMA JoinsExists ==
    ASSUME NEW S, NEW g, NEW n \in Nat, \A i \in 1..n : g[i] \in Seq(S)
    PROVE  \E f : Joins(f, g, n)
<1> DEFINE Bad == {k \in 0..n : ~ \E f : Joins(f, g, k)}
<1>1. SUFFICES ASSUME Bad # {} PROVE FALSE
  OBVIOUS
<1>2. PICK k \in Bad : \A y \in Bad : k <= y
  <2>1. Bad \in SUBSET Nat OBVIOUS
  <2> HIDE DEF Bad
  <2> QED BY <1>1, <2>1, LeastElement
<1>3. k # 0
  <2>1. [i \in 1..0 |-> 0] = [i \in 1..0 |-> IF i = 1 THEN g[i] ELSE [j \in 1..0 |-> 0][i - 1] \o g[i]]
    OBVIOUS
  <2>2. Joins([i \in 1..0 |-> 0], g, 0)
    BY <2>1 DEF Joins
  <2> QED BY <1>2, <2>2
<1>4. PICK f : Joins(f, g, k - 1)
  <2>1. k - 1 \in 0..n /\ ~ (k <= k - 1)
    BY <1>2, <1>3
  <2> QED BY <1>2, <2>1
<1> DEFINE h == [i \in 1..k |-> IF i < k THEN f[i] ELSE IF i = 1 THEN g[i] ELSE f[i - 1] \o g[i]]
<1>5. ASSUME NEW i \in 1..k
      PROVE  h[i] = IF i = 1 THEN g[i] ELSE h[i - 1] \o g[i]
  <2>1. k \in Nat /\ i \in Nat
    BY <1>2
  <2>2. i # 1 => i - 1 \in 1..k /\ i - 1 < k /\ h[i - 1] = f[i - 1]
    BY <2>1
  <2>3. CASE i < k
    <3>1. i \in 1..(k - 1)
      BY <2>1, <2>3
    <3>2. f[i] = IF i = 1 THEN g[i] ELSE f[i - 1] \o g[i]
      BY <1>4, <3>1 DEF Joins
    <3>3. h[i] = f[i]
      BY <2>3
    <3> HIDE DEF h
    <3> QED BY <2>2, <3>2, <3>3
  <2>4. CASE ~ (i < k)
    <3>1. h[i] = IF i = 1 THEN g[i] ELSE f[i - 1] \o g[i]
      BY <2>4
    <3> HIDE DEF h
    <3> QED BY <2>2, <3>1
  <2> QED BY <2>3, <2>4
<1>6. h = [i \in 1..k |-> h[i]]
  OBVIOUS
<1> HIDE DEF h
<1>7. h = [i \in 1..k |-> IF i = 1 THEN g[i] ELSE h[i - 1] \o g[i]]
  BY <1>5, <1>6
<1>8. Joins(h, g, k)
  BY <1>7 DEF Joins
<1> QED BY <1>2, <1>8

\* Its values are sequences.
LEMMA JoinsSequences ==
    ASSUME NEW S, NEW g, NEW n \in Nat, \A i \in 1..n : g[i] \in Seq(S), NEW f, Joins(f, g, n)
    PROVE  \A i \in 1..n : f[i] \in Seq(S)
<1> DEFINE Bad == {k \in 1..n : ~ (f[k] \in Seq(S))}
<1>1. SUFFICES ASSUME Bad # {} PROVE FALSE
  OBVIOUS
<1>2. PICK k \in Bad : \A y \in Bad : k <= y
  <2>1. Bad \in SUBSET Nat OBVIOUS
  <2> HIDE DEF Bad
  <2> QED BY <1>1, <2>1, LeastElement
<1>3. k \in 1..n
  BY <1>2
<1>4. f[k] = IF k = 1 THEN g[k] ELSE f[k - 1] \o g[k]
  BY <1>3 DEF Joins
<1>5. k # 1 => f[k - 1] \in Seq(S)
  <2>1. k # 1 => k - 1 \in 1..n /\ ~ (k <= k - 1)
    BY <1>3
  <2> QED BY <1>2, <2>1
<1>6. k # 1 => f[k - 1] \o g[k] \in Seq(S)
  BY <1>3, <1>5, ConcatProperties
<1> QED BY <1>2, <1>3, <1>4, <1>6

\* FlattenSeq puts sequences over a set together to one over that set.
LEMMA FlattenType ==
    ASSUME NEW S, NEW n \in Nat, NEW g \in [1..n -> Seq(S)]
    PROVE  FlattenSeq(g) \in Seq(S)
<1>1. g \in Seq(Seq(S)) /\ Len(g) = n
  OBVIOUS
<1>2. CASE n = 0
  <2>1. g = << >> /\ << >> \in Seq(S)
    BY <1>1, <1>2
  <2>2. FlattenSeq(g) = g
    BY <1>1, <1>2 DEF FlattenSeq
  <2> QED BY <2>1, <2>2
<1>3. CASE n # 0
  <2> DEFINE flatten == CHOOSE f : Joins(f, g, n)
  <2>1. \E f : Joins(f, g, n)
    BY JoinsExists
  <2>2. Joins(flatten, g, n)
    BY <2>1, Zenon
  <2>3. FlattenSeq(g) = flatten[n]
    BY <1>1, <1>3 DEF FlattenSeq, Joins
  <2> HIDE DEF flatten
  <2>4. \A i \in 1..n : flatten[i] \in Seq(S)
    BY <2>2, JoinsSequences
  <2> QED BY <1>3, <2>3, <2>4
<1> QED BY <1>2, <1>3

\* Kinds: the values of each key.
LEMMA Kinds ==
    /\ Kind("commitments") = Seq(Commitments) /\ Kind("transactions") = Seq(Transactions)
    /\ \A k \in RecordKeys : Kind(k) = [Fields(k) -> Values]
BY DEF Kind, RecordKeys

\* What a removal writes.
LEMMA ResetIs == \A k, old : Apply(Reset(k), old) = EmptyDb[k]
BY DEF Apply, Reset

\* A removed key reads as its default, which is a value of the key.
LEMMA DefaultFits == \A k \in Keys : EmptyDb[k] \in Kind(k) /\ Fits(Reset(k), k)
<1> TAKE k \in Keys
<1>1. EmptyDb[k] = IF k \in ListKeys THEN << >> ELSE Defaults(k)
  BY DEF EmptyDb
<1>2. CASE k \in ListKeys
  <2>1. k = "commitments" \/ k = "transactions"
    BY <1>2 DEF ListKeys
  <2>2. << >> \in Seq(Commitments) /\ << >> \in Seq(Transactions)
    OBVIOUS
  <2> QED BY <1>1, <1>2, <2>1, <2>2, Kinds, ResetIs DEF Fits
<1>3. CASE k \in RecordKeys /\ k \notin ListKeys
  <2>1. Defaults(k) \in [Fields(k) -> Values]
    BY DatabaseAssumption DEF Defaults
  <2> QED BY <1>1, <1>3, <2>1, Kinds, ResetIs DEF Fits
<1> QED BY <1>2, <1>3 DEF Keys

\* saveCommitment appends an unspent commitment.
LEMMA AppendFits == \A id \in Ids : Fits(AppendEntry(id), "commitments")
<1> SUFFICES ASSUME NEW id \in Ids, NEW old \in Seq(Commitments)
             PROVE  Apply(AppendEntry(id), old) \in Seq(Commitments)
  BY Kinds DEF Fits
<1>1. Entry(id, "unspent") \in Commitments
  BY DEF Entry, Commitments
<1>2. Apply(AppendEntry(id), old) = Append(old, Entry(id, "unspent"))
  BY DEF Apply, AppendEntry
<1>3. Append(old, Entry(id, "unspent")) \in Seq(Commitments)
  BY <1>1, AppendProperties
<1> QED BY <1>2, <1>3

\* saveTransaction puts a pending transaction in front.
LEMMA PrependFits == \A id \in Ids : Fits(PrependEntry(id), "transactions")
<1> SUFFICES ASSUME NEW id \in Ids, NEW old \in Seq(Transactions)
             PROVE  Apply(PrependEntry(id), old) \in Seq(Transactions)
  BY Kinds DEF Fits
<1>1. <<Entry(id, "pending")>> \in Seq(Transactions)
  <2>1. Entry(id, "pending") \in Transactions
    BY DEF Entry, Transactions
  <2> HIDE DEF Entry, Transactions
  <2> QED BY <2>1
<1>2. Apply(PrependEntry(id), old) = <<Entry(id, "pending")>> \o old
  BY DEF Apply, PrependEntry
<1>3. <<Entry(id, "pending")>> \o old \in Seq(Transactions)
  BY <1>1, ConcatProperties
<1> QED BY <1>2, <1>3

\* markCommitmentSpent and updateTransactionStatus change entries in place.
LEMMA SetFits ==
    ASSUME NEW S, NEW id, NEW status, Entry(id, status) \in S, NEW old \in Seq(S)
    PROVE  Apply(SetEntry(id, status), old) \in Seq(S)
<1> DEFINE new == [i \in DOMAIN old |-> IF old[i].id = id THEN Entry(id, status) ELSE old[i]]
<1>1. Apply(SetEntry(id, status), old) = new
  BY DEF Apply, SetEntry
<1>2. Len(old) \in Nat /\ DOMAIN old = 1..Len(old) /\ \A i \in 1..Len(old) : old[i] \in S
  OBVIOUS
<1>3. new \in [1..Len(old) -> S]
  BY <1>2
<1> HIDE DEF new
<1>4. new \in Seq(S)
  BY <1>2, <1>3, SeqDef
<1> QED BY <1>1, <1>4

\* deleteCommitment and deleteTransaction keep the other entries.
LEMMA RemoveFits ==
    ASSUME NEW S, NEW id, NEW old \in Seq(S)
    PROVE  Apply(RemoveEntry(id), old) \in Seq(S)
<1> DEFINE parts == [i \in DOMAIN old |-> IF old[i].id = id THEN <<>> ELSE <<old[i]>>]
<1>1. Apply(RemoveEntry(id), old) = FlattenSeq(parts)
  BY DEF Apply, RemoveEntry
<1>2. Len(old) \in Nat /\ DOMAIN old = 1..Len(old) /\ \A i \in 1..Len(old) : old[i] \in S
  OBVIOUS
<1>3. parts \in [1..Len(old) -> Seq(S)]
  <2>1. \A x \in S : <<x>> \in Seq(S)
    OBVIOUS
  <2>2. <<>> \in Seq(S)
    OBVIOUS
  <2> QED BY <1>2, <2>1, <2>2
<1> HIDE DEF parts
<1>4. FlattenSeq(parts) \in Seq(S)
  BY <1>2, <1>3, FlattenType
<1> QED BY <1>1, <1>4

LEMMA EntriesFit ==
    /\ \A id \in Ids : Fits(SetEntry(id, "spent"), "commitments")
    /\ \A id \in Ids : \A status \in {"confirmed", "failed"} : Fits(SetEntry(id, status), "transactions")
    /\ \A id \in Ids : Fits(RemoveEntry(id), "commitments") /\ Fits(RemoveEntry(id), "transactions")
<1>1. \A id \in Ids : Entry(id, "spent") \in Commitments
  BY DEF Entry, Commitments
<1>2. \A id \in Ids : \A status \in {"confirmed", "failed"} : Entry(id, status) \in Transactions
  BY DEF Entry, Transactions
<1>3. ASSUME NEW id \in Ids PROVE Fits(SetEntry(id, "spent"), "commitments")
  BY <1>1, Kinds, SetFits DEF Fits
<1>4. ASSUME NEW id \in Ids, NEW status \in {"confirmed", "failed"}
      PROVE  Fits(SetEntry(id, status), "transactions")
  BY <1>2, Kinds, SetFits DEF Fits
<1>5. ASSUME NEW id \in Ids
      PROVE  Fits(RemoveEntry(id), "commitments") /\ Fits(RemoveEntry(id), "transactions")
  BY Kinds, RemoveFits DEF Fits
<1> QED BY <1>3, <1>4, <1>5

\* saveSettings, updateSyncState and saveBalances set a field.
LEMMA MergeFits ==
    \A k \in RecordKeys : \A f \in Fields(k), v \in Values : Fits(Merge(f, v), k)
<1> SUFFICES ASSUME NEW k \in RecordKeys, NEW f \in Fields(k), NEW v \in Values,
                    NEW old \in [Fields(k) -> Values]
             PROVE  Apply(Merge(f, v), old) \in [Fields(k) -> Values]
  BY Kinds DEF Fits
<1>1. Apply(Merge(f, v), old) = [old EXCEPT ![f] = v]
  BY DEF Apply, Merge
<1>2. [old EXCEPT ![f] = v] \in [Fields(k) -> Values]
  OBVIOUS
<1> QED BY <1>1, <1>2

\* importData writes the lists of the backup.
LEMMA ReplaceFits == \A k : \A list \in Kind(k) : Fits(Replace(list), k)
<1> SUFFICES ASSUME NEW k, NEW list \in Kind(k), NEW old PROVE Apply(Replace(list), old) \in Kind(k)
  BY DEF Fits
<1>1. Apply(Replace(list), old) = list
  BY DEF Apply, Replace
<1> QED BY <1>1

-----------------------------------------------------------------------------
(***************************************************************************)
(* The functions make requests of this form.                               *)
(***************************************************************************)
\* A sequence is one over its own elements.
LEMMA OwnElements ==
    ASSUME NEW S, NEW s \in Seq(S)
    PROVE  s \in Seq({s[i] : i \in DOMAIN s})
<1> DEFINE T == {s[i] : i \in DOMAIN s}
<1>1. s = [i \in 1..Len(s) |-> s[i]] /\ Len(s) \in Nat
  OBVIOUS
<1>2. \A i \in 1..Len(s) : s[i] \in T
  OBVIOUS
<1> HIDE DEF T
<1>3. s \in [1..Len(s) -> T]
  BY <1>1, <1>2
<1>4. s \in Seq(T)
  BY <1>1, <1>3, SeqDef
<1> QED BY <1>4 DEF T

\* The concatenation of two pairs.
LEMMA TwoPairs ==
    ASSUME NEW S, NEW s \in Seq(S), NEW t \in Seq(S), Len(s) = 2, Len(t) = 2
    PROVE  /\ s \o t \in Seq(S) /\ Len(s \o t) = 4
           /\ (s \o t)[1] = s[1] /\ (s \o t)[2] = s[2]
           /\ (s \o t)[3] = t[1] /\ (s \o t)[4] = t[2]
<1>1. /\ s \o t \in Seq(S) /\ Len(s \o t) = 4
      /\ \A i \in 1..4 : (s \o t)[i] = IF i <= 2 THEN s[i] ELSE t[i - 2]
  <2>1. /\ s \o t \in Seq(S) /\ Len(s \o t) = Len(s) + Len(t)
        /\ \A i \in 1..(Len(s) + Len(t)) : (s \o t)[i] = IF i <= Len(s) THEN s[i] ELSE t[i - Len(s)]
    BY ConcatProperties
  <2>2. Len(s) + Len(t) = 4
    OBVIOUS
  <2> QED BY <2>1, <2>2, Zenon
<1>2. 1 \in 1..4 /\ 2 \in 1..4 /\ 3 \in 1..4 /\ 4 \in 1..4 /\ 3 - 2 = 1 /\ 4 - 2 = 2
      /\ 1 <= 2 /\ 2 <= 2 /\ ~(3 <= 2) /\ ~(4 <= 2)
  OBVIOUS
<1> QED BY <1>1, <1>2

\* A function that writes without reading: the clear functions, saveBalances.
LEMMA OneWrite ==
    ASSUME NEW k \in Keys, NEW u, Fits(u, k)
    PROVE  CallOK(<<Write(k, u)>>)
<1> DEFINE s == <<Write(k, u)>>
<1>1. Len(s) = 1 /\ s[1] = Write(k, u) /\ s \in Seq({Write(k, u)}) /\ s # <<>>
  OBVIOUS
<1>2. Write(k, u).key = k /\ Write(k, u).act = "write" /\ Write(k, u).u = u
  BY DEF Write
<1> HIDE DEF s
<1>3. \A i \in 1..Len(s) : s[i] = Write(k, u)
  BY <1>1
<1>4. RequestsOK(s)
  BY <1>1, <1>2, <1>3 DEF RequestsOK
<1>5. s \in Seq({s[i] : i \in DOMAIN s})
  BY <1>1, OwnElements
<1>6. CallOK(s)
  BY <1>1, <1>2, <1>4, <1>5 DEF CallOK
<1> QED BY <1>6 DEF s

\* A function that changes part of a value: reads it and writes it back.
LEMMA ReadThenWrite ==
    ASSUME NEW k \in Keys, NEW u, Fits(u, k)
    PROVE  CallOK(ReadModifyWrite(k, u))
<1> DEFINE s == ReadModifyWrite(k, u)
<1>1. Len(s) = 2 /\ s[1] = Read(k) /\ s[2] = Write(k, u) /\ s \in Seq({Read(k), Write(k, u)})
  BY DEF ReadModifyWrite
<1>2. /\ Write(k, u).key = k /\ Write(k, u).act = "write" /\ Write(k, u).u = u
      /\ Read(k).key = k /\ Read(k).act = "read"
  BY DEF Write, Read
<1> HIDE DEF s
<1>3. \A i \in 1..Len(s) : i = 1 \/ i = 2
  BY <1>1
<1>4. RequestsOK(s)
  BY <1>1, <1>2, <1>3 DEF RequestsOK
<1>5. CallOK(s)
  BY <1>1, <1>4, OwnElements DEF CallOK
<1> QED BY <1>5 DEF s

\* clearAllData: four removals.
LEMMA ClearAllDataOK == CallOK(ClearAllData)
<1> DEFINE R == {Write(k, Reset(k)) : k \in Keys}
           s == ClearCommitments \o ClearTransactions
           t == <<Write("sync_state", Reset("sync_state")), Write("balances", Reset("balances"))>>
<1>1. \A k \in Keys : Write(k, Reset(k)) \in R
  OBVIOUS
<1>2. {"commitments", "transactions", "sync_state", "balances"} \subseteq Keys
  BY DEF Keys, ListKeys, RecordKeys
<1>3. ClearCommitments \in Seq(R) /\ ClearTransactions \in Seq(R)
      /\ Len(ClearCommitments) = 1 /\ Len(ClearTransactions) = 1
  BY <1>1, <1>2 DEF ClearCommitments, ClearTransactions
<1>4. t \in Seq(R) /\ Len(t) = 2
  BY <1>1, <1>2
<1> HIDE DEF t
<1> HIDE DEF R
<1>5. s \in Seq(R) /\ Len(s) = 2
  <2>1. s \in Seq(R) /\ Len(s) = Len(ClearCommitments) + Len(ClearTransactions)
    BY <1>3, ConcatProperties
  <2> QED BY <2>1, <1>3
<1> HIDE DEF s
<1>6. s \o t \in Seq(R) /\ Len(s \o t) = 4
  BY <1>4, <1>5, TwoPairs
<1>7. ClearAllData = s \o t
  BY DEF ClearAllData, s, t
<1>8. RequestsOK(s \o t)
  <2>1. \A i \in 1..Len(s \o t) : (s \o t)[i] \in R
    BY <1>6, ElementOfSeq
  <2>2. \A x \in R : x.key \in Keys /\ x.act = "write" /\ Fits(x.u, x.key)
    BY DefaultFits DEF R, Write
  <2> QED BY <2>1, <2>2 DEF RequestsOK
<1>9. s \o t \in Seq({(s \o t)[i] : i \in DOMAIN (s \o t)})
  BY <1>6, OwnElements
<1>10. CallOK(s \o t)
  BY <1>6, <1>8, <1>9 DEF CallOK
<1> QED BY <1>7, <1>10

\* importData: two writes and a saveSettings.
LEMMA ImportDataOK ==
    ASSUME NEW cs \in Seq(Commitments), NEW ts \in Seq(Transactions),
           NEW f \in Fields("settings"), NEW v \in Values
    PROVE  CallOK(ImportData(cs, ts, f, v))
<1> DEFINE w1 == Write("commitments", Replace(cs))
           w2 == Write("transactions", Replace(ts))
           r == Read("settings")
           w == Write("settings", Merge(f, v))
           R == {w1, w2, r, w}
           s == <<w1, w2>>
           t == <<r, w>>
<1>1. /\ w1.key \in Keys /\ w1.act = "write" /\ w2.key \in Keys /\ w2.act = "write"
      /\ r.key \in Keys /\ r.act = "read" /\ w.key = r.key /\ w.act = "write"
  BY DEF Write, Read, Keys, ListKeys, RecordKeys
<1>a. Fits(w1.u, w1.key) /\ Fits(w2.u, w2.key) /\ Fits(w.u, w.key)
  <2>1. Fits(Replace(cs), "commitments") /\ Fits(Replace(ts), "transactions")
    BY Kinds, ReplaceFits
  <2>2. Fits(Merge(f, v), "settings")
    BY MergeFits DEF RecordKeys
  <2> QED BY <2>1, <2>2 DEF Write
<1>2. ImportData(cs, ts, f, v) = s \o t
  BY DEF ImportData, SaveSettings, ReadModifyWrite
<1> HIDE DEF w1, w2, r, w
<1>3. s \in Seq(R) /\ Len(s) = 2 /\ s[1] = w1 /\ s[2] = w2
  OBVIOUS
<1>4. t \in Seq(R) /\ Len(t) = 2 /\ t[1] = r /\ t[2] = w
  OBVIOUS
<1> HIDE DEF R, s, t
<1>5. /\ s \o t \in Seq(R) /\ Len(s \o t) = 4
      /\ (s \o t)[1] = w1 /\ (s \o t)[2] = w2 /\ (s \o t)[3] = r /\ (s \o t)[4] = w
  BY <1>3, <1>4, TwoPairs
<1>6. \A i \in 1..Len(s \o t) : i = 1 \/ i = 2 \/ i = 3 \/ i = 4
  BY <1>5
<1>7. RequestsOK(s \o t)
  <2> DEFINE st == s \o t
  <2>1. /\ Len(st) = 4 /\ st[1] = w1 /\ st[2] = w2 /\ st[3] = r /\ st[4] = w
        /\ \A i \in 1..Len(st) : i = 1 \/ i = 2 \/ i = 3 \/ i = 4
    BY <1>5, <1>6
  <2> HIDE DEF st
  <2>2. RequestsOK(st)
    BY <1>1, <1>a, <2>1 DEF RequestsOK
  <2> QED BY <2>2 DEF st
<1>8. CallOK(s \o t)
  <2>1. s \o t \in Seq({(s \o t)[i] : i \in DOMAIN (s \o t)})
    <3> DEFINE st == s \o t
    <3>1. st \in Seq(R)
      BY <1>5
    <3> HIDE DEF st
    <3>2. st \in Seq({st[i] : i \in DOMAIN st})
      BY ONLY <3>1, OwnElements
    <3> QED BY <3>2 DEF st
  <2>2. s \o t # << >> /\ Len(s \o t) # 1
    BY <1>5
  <2> QED BY <1>7, <2>1, <2>2, Zenon DEF CallOK
<1> QED BY <1>2, <1>8

\* CallsOK: every function of the database makes requests of this form.
LEMMA CallsOK ==
    ASSUME NEW cl \in Calls
    PROVE  CallOK(cl)
<1> USE DEF Keys, ListKeys, RecordKeys
<1>1. CASE cl \in CommitmentCalls
  <2>1. CASE cl = ClearCommitments
    BY <2>1, OneWrite, DefaultFits DEF ClearCommitments
  <2>2. ASSUME NEW i \in Ids, cl \in {SaveCommitment(i), MarkCommitmentSpent(i), DeleteCommitment(i)}
        PROVE  CallOK(cl)
    BY <2>2, ReadThenWrite, AppendFits, EntriesFit DEF SaveCommitment, MarkCommitmentSpent, DeleteCommitment
  <2> DEFINE Of(i) == {SaveCommitment(i), MarkCommitmentSpent(i), DeleteCommitment(i)}
  <2>3. CASE cl # ClearCommitments
    <3>1. cl \in UNION {Of(i) : i \in Ids}
      BY <1>1, <2>3 DEF CommitmentCalls
    <3> HIDE DEF Of
    <3>2. PICK i \in Ids : cl \in Of(i)
      BY <3>1
    <3> QED BY <2>2, <3>2 DEF Of
  <2> QED BY <2>1, <2>3
<1>2. CASE cl \in TransactionCalls
  <2>1. CASE cl = ClearTransactions
    BY <2>1, OneWrite, DefaultFits DEF ClearTransactions
  <2>2. ASSUME NEW i \in Ids,
               cl \in {SaveTransaction(i), UpdateTransactionStatus(i, "confirmed"),
                       UpdateTransactionStatus(i, "failed"), DeleteTransaction(i)}
        PROVE  CallOK(cl)
    BY <2>2, ReadThenWrite, PrependFits, EntriesFit
       DEF SaveTransaction, UpdateTransactionStatus, DeleteTransaction
  <2> DEFINE Of(i) == {SaveTransaction(i), UpdateTransactionStatus(i, "confirmed"),
                       UpdateTransactionStatus(i, "failed"), DeleteTransaction(i)}
  <2>3. CASE cl # ClearTransactions
    <3>1. cl \in UNION {Of(i) : i \in Ids}
      BY <1>2, <2>3 DEF TransactionCalls
    <3> HIDE DEF Of
    <3>2. PICK i \in Ids : cl \in Of(i)
      BY <3>1
    <3> QED BY <2>2, <3>2 DEF Of
  <2> QED BY <2>1, <2>3
<1>3. CASE cl \in RecordCalls
  <2>1. ASSUME NEW f \in Fields("settings"), NEW v \in Values, cl = SaveSettings(f, v)
        PROVE  CallOK(cl)
    BY <2>1, ReadThenWrite, MergeFits DEF SaveSettings
  <2>2. ASSUME NEW f \in Fields("sync_state"), NEW v \in Values, cl = UpdateSyncState(f, v)
        PROVE  CallOK(cl)
    BY <2>2, ReadThenWrite, MergeFits DEF UpdateSyncState
  <2>3. ASSUME NEW v \in Values, cl = SaveBalances(v) PROVE CallOK(cl)
    <3>1. "totalBalance" \in Fields("balances")
      BY DEF Fields
    <3> QED BY <2>3, <3>1, OneWrite, MergeFits DEF SaveBalances
  <2>4. CASE cl = ResetSettings
    BY <2>4, OneWrite, DefaultFits DEF ResetSettings
  <2> QED BY <1>3, <2>1, <2>2, <2>3, <2>4 DEF RecordCalls
<1> DEFINE Of(i, v) == ImportData(<<Entry(i, "unspent")>>, <<Entry(i, "confirmed")>>, "autoLockTimeout", v)
<1>4. CASE cl \in {Of(i, v) : i \in Ids, v \in Values}
  <2>1. PICK i \in Ids, v \in Values : cl = Of(i, v)
    BY <1>4
  <2>2. Entry(i, "unspent") \in Commitments /\ Entry(i, "confirmed") \in Transactions
    BY DEF Entry, Commitments, Transactions
  <2>3. <<Entry(i, "unspent")>> \in Seq(Commitments) /\ <<Entry(i, "confirmed")>> \in Seq(Transactions)
    BY <2>2
  <2>4. "autoLockTimeout" \in Fields("settings")
    BY DEF Fields
  <2> QED BY <2>1, <2>3, <2>4, ImportDataOK
<1>5. \/ cl \in CommitmentCalls \/ cl \in TransactionCalls \/ cl \in RecordCalls \/ cl = ClearAllData
      \/ cl \in {Of(i, v) : i \in Ids, v \in Values}
  BY DEF Calls
<1> HIDE DEF Of
<1> QED BY <1>1, <1>2, <1>3, <1>4, <1>5, ClearAllDataOK

\* A call is a sequence of requests.
LEMMA CallIsSeq ==
    ASSUME NEW cl \in Calls
    PROVE  cl \in Seq(Requests) /\ Len(cl) > 0
<1>1. cl \in Seq({cl[i] : i \in DOMAIN cl}) /\ cl # <<>>
  BY CallsOK DEF CallOK
<1>2. {cl[i] : i \in DOMAIN cl} \subseteq Requests
  BY DEF Requests
<1>3. cl \in Seq(Requests)
  BY <1>1, <1>2, SeqMonotonic
<1> QED BY <1>1, <1>3

\* A write of a call is one of the updates of its key.
LEMMA WriteUpdates ==
    ASSUME NEW r \in Requests, r.act = "write", r.key \in Keys
    PROVE  r.u \in Updates[r.key]
<1>1. Updates[r.key] = {w.u : w \in {x \in Requests : x.act = "write" /\ x.key = r.key}}
  BY DEF Updates, Requests
<1>2. r \in {x \in Requests : x.act = "write" /\ x.key = r.key}
  OBVIOUS
<1> QED BY <1>1, <1>2

-----------------------------------------------------------------------------
(***************************************************************************)
(* The invariant.                                                          *)
(***************************************************************************)
\* What a call has read is still what its key holds, or is a default, or the call
\* was overtaken.
Stands(c) ==
    LET key == todo[c][1].key IN
    \/ read[c] = None \/ read[c] = db[key] \/ (readFailed /\ read[c] = EmptyDb[key])
    \/ c \in overtaken

CallInv(c) ==
    /\ todo[c] \in Seq(Requests) /\ RequestsOK(todo[c])
    /\ outcome[c] = "none" => todo[c] = <<>> /\ read[c] = None
    /\ Len(todo[c]) > 1 => read[c] = None
    /\ Len(todo[c]) = 1 => todo[c][1].act = "write" /\ Stands(c)

Separate(c, d) == KeysOf(todo[c]) \cap KeysOf(todo[d]) = {}

Shape ==
    /\ DOMAIN db = Keys /\ db = [key \in Keys |-> db[key]]
    /\ todo = [c \in Callers |-> todo[c]] /\ read = [c \in Callers |-> read[c]]
    /\ outcome = [c \in Callers |-> outcome[c]]

DatabaseInv ==
    /\ Shape
    /\ \A c \in Callers : CallInv(c)

\* What holds besides when the calls on one key do not overlap.
ApartInv ==
    /\ \A c, d \in Callers : c # d => Separate(c, d)
    /\ overtaken = {}

\* What is left of a call after its first request.
LEMMA TailOK ==
    ASSUME NEW s \in Seq(Requests), RequestsOK(s), s # <<>>
    PROVE  /\ Head(s) = s[1] /\ Head(s) \in Requests /\ Head(s).key \in Keys
           /\ Head(s).act \in {"read", "write"}
           /\ Tail(s) \in Seq(Requests) /\ RequestsOK(Tail(s))
           /\ Len(Tail(s)) = Len(s) - 1
           /\ Len(Tail(s)) = 1 => Tail(s)[1].act = "write"
           /\ Head(s).act = "read" => Len(Tail(s)) = 1 /\ Tail(s)[1].key = Head(s).key
           /\ KeysOf(Tail(s)) \subseteq KeysOf(s) /\ Head(s).key \in KeysOf(s)
<1>1. /\ Head(s) = s[1] /\ Head(s) \in Requests /\ Tail(s) \in Seq(Requests)
      /\ Len(Tail(s)) = Len(s) - 1 /\ Len(s) \in Nat \ {0}
      /\ \A i \in 1..Len(Tail(s)) : Tail(s)[i] = s[i + 1]
  BY HeadTailProperties
<1>2. Head(s).key \in Keys /\ Head(s).act \in {"read", "write"}
  <2>1. 1 \in 1..Len(s)
    BY <1>1
  <2>2. s[1].key \in Keys /\ s[1].act \in {"read", "write"}
    BY <2>1 DEF RequestsOK
  <2> QED BY <2>2, <1>1
<1>3. \A i \in 1..Len(Tail(s)) : i + 1 \in 1..Len(s)
  BY <1>1
<1>4. RequestsOK(Tail(s))
  <2> DEFINE t == Tail(s)
             n == Len(t)
  <2>1. \A i \in 1..n : t[i] = s[i + 1] /\ i + 1 \in 1..Len(s)
    BY <1>1, <1>3
  <2>2. Len(s) = n + 1 /\ n \in Nat
    BY <1>1
  <2> HIDE DEF t
  <2>3. ASSUME NEW i \in 1..n, t[i].act = "read"
        PROVE  i = n - 1 /\ t[n].act = "write" /\ t[n].key = t[i].key
    <3>1. i + 1 = Len(s) - 1 /\ s[Len(s)].act = "write" /\ s[Len(s)].key = s[i + 1].key
      BY <2>1, <2>3 DEF RequestsOK
    <3>2. n \in 1..n
      BY <2>2
    <3>3. t[n] = s[n + 1]
      BY <2>1, <3>2
    <3> QED BY <2>1, <2>2, <3>1, <3>3
  <2>4. \A i \in 1..n : t[i].key \in Keys /\ t[i].act \in {"read", "write"}
    BY <2>1 DEF RequestsOK
  <2>5. \A i \in 1..n : t[i].act = "write" => Fits(t[i].u, t[i].key)
    BY <2>1, Zenon DEF RequestsOK
  <2>6. RequestsOK(t)
    BY <2>3, <2>4, <2>5, Zenon DEF RequestsOK
  <2> QED BY <2>6 DEF t
<1>5. Len(Tail(s)) = 1 => Tail(s)[1].act = "write"
  <2> SUFFICES ASSUME Len(Tail(s)) = 1 PROVE Tail(s)[1].act = "write"
    OBVIOUS
  <2>1. Len(s) = 2 /\ Tail(s)[1] = s[2] /\ 2 \in 1..Len(s)
    BY <1>1
  <2>2. s[2].act \in {"read", "write"} /\ s[2].act # "read"
    BY <2>1 DEF RequestsOK
  <2> QED BY <2>1, <2>2
<1>6. ASSUME Head(s).act = "read"
      PROVE  Len(Tail(s)) = 1 /\ Tail(s)[1].key = Head(s).key
  <2>1. 1 \in 1..Len(s) /\ s[1].act = "read"
    BY <1>1, <1>6
  <2>2. Len(s) = 2 /\ s[Len(s)].key = s[1].key
    <3>1. 1 = Len(s) - 1 /\ s[Len(s)].key = s[1].key
      BY <2>1 DEF RequestsOK
    <3> QED BY <3>1, <1>1
  <2>3. Len(Tail(s)) = 1
    BY <2>2, <1>1
  <2>4. Tail(s)[1] = s[2]
    BY <2>3, <1>1
  <2> QED BY <2>2, <2>3, <2>4, <1>1
<1>7. KeysOf(Tail(s)) \subseteq KeysOf(s) /\ Head(s).key \in KeysOf(s)
  <2>1. DOMAIN s = 1..Len(s) /\ DOMAIN Tail(s) = 1..Len(Tail(s))
    BY <1>1
  <2>2. Head(s).key \in KeysOf(s)
    BY <1>1, <2>1 DEF KeysOf
  <2>3. ASSUME NEW i \in 1..Len(Tail(s)) PROVE Tail(s)[i].key \in KeysOf(s)
    BY <1>1, <1>3, <2>1 DEF KeysOf
  <2> QED BY <2>1, <2>2, <2>3 DEF KeysOf
<1> QED BY <1>1, <1>2, <1>4, <1>5, <1>6, <1>7

\* Before the first call nothing is to be done and nothing has been read.
LEMMA InvInit == Init => DatabaseInv
<1> SUFFICES ASSUME Init PROVE DatabaseInv
  OBVIOUS
<1>1. Shape
  BY DEF Init, Shape, EmptyDb
<1>2. \A c \in Callers : todo[c] = <<>> /\ read[c] = None
  BY DEF Init
<1>3. <<>> \in Seq(Requests) /\ Len(<<>>) = 0 /\ KeysOf(<<>>) = {} /\ RequestsOK(<<>>)
  BY DEF KeysOf, RequestsOK
<1>4. ASSUME NEW c \in Callers PROVE CallInv(c)
  <2>1. todo[c] \in Seq(Requests) /\ RequestsOK(todo[c]) /\ Len(todo[c]) = 0
    BY <1>2, <1>3
  <2> QED BY <1>2, <2>1 DEF CallInv
<1> QED BY <1>1, <1>4 DEF DatabaseInv

\* A step of another call keeps what is said of a call, if it overtakes the call
\* when it changes the key that the call has read.
LEMMA OtherKeeps ==
    ASSUME DatabaseInv, NEW d \in Callers,
           todo'[d] = todo[d], read'[d] = read[d], outcome'[d] = outcome[d],
           readFailed => readFailed', overtaken \subseteq overtaken',
           \A key \in Keys : db'[key] = db[key] \/ ~HasRead(d, key) \/ d \in overtaken'
    PROVE  CallInv(d)'
<1>1. CallInv(d)
  BY DEF DatabaseInv
<1>2. ASSUME Len(todo[d]) = 1 PROVE Stands(d)'
  <2> DEFINE key == todo[d][1].key
  <2>1. Stands(d) /\ todo[d] \in Seq(Requests) /\ RequestsOK(todo[d]) /\ todo[d][1].act = "write"
    BY <1>1, <1>2 DEF CallInv
  <2>2. key \in Keys /\ Head(todo[d]) = todo[d][1] /\ todo[d] # <<>>
    BY <1>2, <2>1, TailOK
  <2>3. read[d] # None => HasRead(d, key)
    BY <2>1, <2>2 DEF HasRead, Request
  <2>4. db'[key] = db[key] \/ read[d] = None \/ d \in overtaken'
    BY <2>2, <2>3
  <2> QED BY <2>1, <2>4 DEF Stands
<1> QED BY <1>1, <1>2 DEF CallInv

\* A call that starts has read nothing yet.
LEMMA StartKeeps ==
    ASSUME DatabaseInv, NEW c \in Callers, NEW cl \in Calls, Start(c, cl)
    PROVE  DatabaseInv'
<1>1. /\ todo' = [todo EXCEPT ![c] = cl] /\ outcome' = [outcome EXCEPT ![c] = "pending"]
      /\ db' = db /\ read' = read /\ readFailed' = readFailed /\ outcome[c] = "none"
      /\ overtaken' = overtaken
  BY DEF Start
<1>2. Shape'
  BY <1>1 DEF DatabaseInv, Shape
<1>3. todo'[c] = cl /\ outcome'[c] = "pending" /\ read'[c] = None
  BY <1>1 DEF DatabaseInv, Shape, CallInv
<1>4. CallInv(c)'
  <2>1. cl \in Seq(Requests) /\ RequestsOK(cl) /\ (Len(cl) = 1 => cl[1].act = "write")
    BY CallIsSeq, CallsOK DEF CallOK
  <2>2. RequestsOK(todo[c])'
    BY <1>3, <2>1 DEF RequestsOK
  <2> QED BY <1>3, <2>1, <2>2 DEF CallInv, Stands
<1>5. ASSUME NEW d \in Callers, d # c PROVE CallInv(d)'
  BY <1>1, <1>5, OtherKeeps DEF DatabaseInv, Shape
<1> QED BY <1>2, <1>4, <1>5 DEF DatabaseInv

\* A read, which may fail: the call goes on with what its key holds or with the
\* default.
LEMMA ReadKeeps ==
    ASSUME DatabaseInv, NEW c \in Callers, GetItem(c) \/ GetItemFails(c)
    PROVE  DatabaseInv'
<1> DEFINE key == Head(todo[c]).key
           rest == Tail(todo[c])
<1>1. PICK v : /\ read' = [read EXCEPT ![c] = v]
               /\ v = db[key] \/ (readFailed' /\ v = EmptyDb[key])
  BY DEF GetItem, GetItemFails, ReadItem
<1>2. /\ todo[c] # <<>> /\ Head(todo[c]).act = "read" /\ todo' = [todo EXCEPT ![c] = rest]
      /\ db' = db /\ outcome' = outcome /\ (readFailed => readFailed') /\ overtaken' = overtaken
  BY DEF GetItem, GetItemFails, Request
<1>3. CallInv(c) /\ Shape
  BY DEF DatabaseInv
<1>4. /\ rest \in Seq(Requests) /\ RequestsOK(rest) /\ Len(rest) = 1 /\ rest[1].act = "write"
      /\ rest[1].key = key
  BY <1>2, <1>3, TailOK DEF CallInv
<1>5. todo'[c] = rest /\ read'[c] = v /\ outcome'[c] = outcome[c] /\ outcome[c] # "none"
  BY <1>1, <1>2, <1>3 DEF Shape, CallInv
<1> HIDE DEF rest, key
<1>6. CallInv(c)'
  <2>1. Stands(c)'
    BY <1>1, <1>2, <1>4, <1>5 DEF Stands
  <2>2. RequestsOK(todo[c])'
    BY <1>4, <1>5 DEF RequestsOK
  <2>3. todo'[c] \in Seq(Requests) /\ todo'[c][1].act = "write" /\ ~(Len(todo'[c]) > 1)
    <3>1. ~(1 > 1)
      OBVIOUS
    <3> QED BY <1>4, <1>5, <3>1, Zenon
  <2> QED BY <1>5, <2>1, <2>2, <2>3, Zenon DEF CallInv
<1>7. ASSUME NEW d \in Callers, d # c PROVE CallInv(d)'
  BY <1>1, <1>2, <1>3, <1>7, OtherKeeps DEF Shape
<1>8. Shape'
  BY <1>1, <1>2, <1>3 DEF Shape
<1> QED BY <1>6, <1>7, <1>8 DEF DatabaseInv

\* What a write of a call that was not overtaken writes: the current value updated
\* or, once a read has failed, the default updated.
LEMMA WriteIsUpdate ==
    ASSUME DatabaseInv, NEW c \in Callers, SetItem(c), c \notin overtaken
    PROVE  \E key \in Keys : \E u \in Updates[key] :
              /\ key = Head(todo[c]).key
              /\ \/ db' = [db EXCEPT ![key] = Apply(u, db[key])]
                 \/ readFailed /\ db' = [db EXCEPT ![key] = Apply(u, EmptyDb[key])]
<1> DEFINE req == Head(todo[c])
<1>1. /\ todo[c] # <<>> /\ req.act = "write"
      /\ db' = [db EXCEPT ![req.key] = Apply(req.u, IF read[c] = None THEN db[req.key] ELSE read[c])]
  BY DEF SetItem, Request
<1>2. CallInv(c)
  BY DEF DatabaseInv
<1>3. req \in Requests /\ req.key \in Keys /\ req = todo[c][1]
  BY <1>1, <1>2, TailOK DEF CallInv
<1>4. req.u \in Updates[req.key]
  BY <1>1, <1>3, WriteUpdates
<1>5. Len(todo[c]) \in Nat \ {0}
  BY <1>1, <1>2 DEF CallInv
<1>6. read[c] = None \/ read[c] = db[req.key] \/ (readFailed /\ read[c] = EmptyDb[req.key])
  <2>1. CASE Len(todo[c]) = 1
    BY <1>2, <1>3, <2>1 DEF CallInv, Stands
  <2>2. CASE Len(todo[c]) > 1
    BY <1>2, <2>2 DEF CallInv
  <2>3. Len(todo[c]) = 1 \/ Len(todo[c]) > 1
    <3>1. \A n \in Nat \ {0} : n = 1 \/ n > 1
      OBVIOUS
    <3> QED BY <1>5, <3>1, Zenon
  <2> QED BY <2>1, <2>2, <2>3, Zenon
<1> HIDE DEF req
<1>7. \/ db' = [db EXCEPT ![req.key] = Apply(req.u, db[req.key])]
      \/ readFailed /\ db' = [db EXCEPT ![req.key] = Apply(req.u, EmptyDb[req.key])]
  BY <1>1, <1>6
<1> QED BY <1>3, <1>4, <1>7 DEF req

\* A write, or one that is refused.
LEMMA WriteKeeps ==
    ASSUME DatabaseInv, NEW c \in Callers, SetItem(c) \/ Refused(c)
    PROVE  DatabaseInv'
<1> DEFINE key == Head(todo[c]).key
<1>1. PICK s : todo' = [todo EXCEPT ![c] = s] /\ s \in {Tail(todo[c]), <<>>}
  BY DEF SetItem, Refused
<1>2. /\ todo[c] # <<>> /\ Head(todo[c]).act = "write" /\ read' = read /\ readFailed' = readFailed
      /\ \E o : outcome' = [outcome EXCEPT ![c] = o]
  BY DEF SetItem, Refused, Request
<1>3. CallInv(c) /\ Shape
  BY DEF DatabaseInv
<1>4. /\ Tail(todo[c]) \in Seq(Requests) /\ RequestsOK(Tail(todo[c]))
      /\ Len(Tail(todo[c])) = Len(todo[c]) - 1
      /\ Len(Tail(todo[c])) = 1 => Tail(todo[c])[1].act = "write"
      /\ KeysOf(Tail(todo[c])) \subseteq KeysOf(todo[c]) /\ key \in KeysOf(todo[c])
  BY <1>2, <1>3, TailOK DEF CallInv
<1>5. Len(todo[c]) \in Nat /\ Len(todo[c]) > 0 /\ Len(Tail(todo[c])) \in Nat
  BY <1>2, <1>3, <1>4 DEF CallInv
<1>6. /\ s \in Seq(Requests) /\ RequestsOK(s) /\ Len(s) < Len(todo[c]) /\ Len(s) \in Nat
      /\ Len(s) = 1 => s[1].act = "write"
      /\ KeysOf(s) \subseteq KeysOf(todo[c])
  <2>1. CASE s = Tail(todo[c])
    <3>1. Len(Tail(todo[c])) < Len(todo[c])
      BY <1>5, <1>4
    <3> QED BY <2>1, <3>1, <1>5, <1>4, Zenon
  <2>2. CASE s = <<>>
    <3>1. s \in Seq(Requests) /\ Len(s) = 0 /\ KeysOf(s) = {} /\ RequestsOK(s)
      BY <2>2 DEF KeysOf, RequestsOK
    <3> QED BY <3>1, <1>5
  <2> QED BY <1>1, <2>1, <2>2
<1>7. Shape' /\ \A k \in Keys : k # key => db'[k] = db[k]
  <2>1. key \in Keys
    BY <1>2, <1>3, TailOK DEF CallInv
  <2>2. DOMAIN db' = Keys /\ db' = [k \in Keys |-> db'[k]] /\ \A k \in Keys : k # key => db'[k] = db[k]
    <3>1. db' = db \/ \E v : db' = [db EXCEPT ![key] = v]
      BY DEF SetItem, Refused
    <3> QED BY <1>3, <2>1, <3>1 DEF Shape
  <2> QED BY <1>1, <1>2, <1>3, <2>2 DEF Shape
<1>8. /\ todo'[c] = s /\ read'[c] = read[c]
      /\ \A d \in Callers : d # c => /\ todo'[d] = todo[d] /\ read'[d] = read[d]
                                     /\ outcome'[d] = outcome[d]
  BY <1>1, <1>2, <1>3 DEF Shape
<1>9. CallInv(c)'
  <2>1. outcome[c] # "none" /\ outcome'[c] # "none"
    BY <1>2, <1>3 DEF CallInv, Shape, SetItem, Refused
  <2>2. Len(s) > 0 => read[c] = None
    <3>1. Len(s) > 0 => Len(todo[c]) > 1
      BY <1>5, <1>6
    <3> QED BY <1>3, <3>1, Zenon DEF CallInv
  <2>3. RequestsOK(todo[c])'
    BY <1>6, <1>8 DEF RequestsOK
  <2>4. Len(s) = 1 => Stands(c)'
    BY <1>8, <2>2 DEF Stands
  <2>5. Len(s) > 1 => read[c] = None
    BY <1>6, <2>2
  <2> QED BY <1>6, <1>8, <2>1, <2>3, <2>4, <2>5, Zenon DEF CallInv
<1>10. ASSUME NEW d \in Callers, d # c PROVE CallInv(d)'
  <2>1. /\ overtaken \subseteq overtaken'
        /\ \A k \in Keys : db'[k] = db[k] \/ ~HasRead(d, k) \/ d \in overtaken'
    <3>1. CASE Refused(c)
      BY <3>1 DEF Refused
    <3>2. CASE SetItem(c)
      <4>1. overtaken' = overtaken \cup {x \in Callers \ {c} : HasRead(x, key)}
        BY <3>2 DEF SetItem
      <4>2. HasRead(d, key) => d \in overtaken'
        BY <1>10, <4>1
      <4> HIDE DEF key
      <4> QED BY <1>7, <4>1, <4>2
    <3> QED BY <3>1, <3>2
  <2> QED BY <1>2, <1>8, <1>10, <2>1, OtherKeeps
<1> QED BY <1>7, <1>9, <1>10 DEF DatabaseInv

\* Every step keeps the invariant.
LEMMA InvNext == DatabaseInv /\ [Next]_vars => DatabaseInv'
<1> SUFFICES ASSUME DatabaseInv, [Next]_vars PROVE DatabaseInv'
  OBVIOUS
<1>1. ASSUME NEW c \in Callers, NEW cl \in Calls, Start(c, cl) PROVE DatabaseInv'
  BY <1>1, StartKeeps
<1>2. ASSUME NEW c \in Callers, GetItem(c) \/ GetItemFails(c) PROVE DatabaseInv'
  BY <1>2, ReadKeeps
<1>3. ASSUME NEW c \in Callers, SetItem(c) \/ Refused(c) PROVE DatabaseInv'
  BY <1>3, WriteKeeps
<1>4. CASE UNCHANGED vars
  <2>1. /\ db' = db /\ todo' = todo /\ read' = read /\ outcome' = outcome
        /\ readFailed' = readFailed /\ overtaken' = overtaken
    BY <1>4 DEF vars
  <2>2. Shape'
    BY <2>1 DEF DatabaseInv, Shape
  <2>3. ASSUME NEW d \in Callers PROVE CallInv(d)'
    BY <2>1, OtherKeeps
  <2> QED BY <2>2, <2>3 DEF DatabaseInv
<1> QED BY <1>1, <1>2, <1>3, <1>4 DEF Next

\* DatabaseInvAlways: the invariant always holds, whatever calls overlap.
THEOREM DatabaseInvAlways == Spec => []DatabaseInv
<1>1. Init => DatabaseInv
  BY InvInit
<1>2. DatabaseInv /\ [Next]_vars => DatabaseInv'
  BY InvNext
<1> QED BY <1>1, <1>2, PTL DEF Spec

-----------------------------------------------------------------------------
(***************************************************************************)
(* Calls on one key that do not overlap.                                   *)
(***************************************************************************)
\* The keys of the calls stay apart when a call drops a request, or starts on
\* keys no call is using.
LEMMA SeparateKeeps ==
    ASSUME Shape, ApartInv, NEW c \in Callers, NEW s, todo' = [todo EXCEPT ![c] = s],
           \/ KeysOf(s) \subseteq KeysOf(todo[c])
           \/ \A d \in Callers : KeysOf(todo[d]) \cap KeysOf(s) = {}
    PROVE  \A a, b \in Callers : a # b => Separate(a, b)'
<1> SUFFICES ASSUME NEW a \in Callers, NEW b \in Callers, a # b
             PROVE  KeysOf(todo'[a]) \cap KeysOf(todo'[b]) = {}
  BY DEF Separate, KeysOf
<1>1. /\ todo'[c] = s
      /\ \A d \in Callers : d # c => todo'[d] = todo[d]
  BY DEF Shape
<1>2. \A d \in Callers : d # c => KeysOf(todo[d]) \cap KeysOf(s) = {}
  <2>1. \A d \in Callers : d # c => KeysOf(todo[d]) \cap KeysOf(todo[c]) = {}
    BY DEF ApartInv, Separate
  <2> QED BY <2>1
<1>3. CASE a = c
  BY <1>1, <1>2, <1>3
<1>4. CASE b = c
  BY <1>1, <1>2, <1>4
<1>5. CASE a # c /\ b # c
  BY <1>1, <1>5 DEF ApartInv, Separate
<1> QED BY <1>3, <1>4, <1>5

\* A call that makes its next request uses no key it did not use before.
LEMMA RequestDrops ==
    ASSUME DatabaseInv, NEW c \in Callers,
           GetItem(c) \/ GetItemFails(c) \/ SetItem(c) \/ Refused(c)
    PROVE  /\ Head(todo[c]).key \in KeysOf(todo[c])
           /\ \E s : todo' = [todo EXCEPT ![c] = s] /\ KeysOf(s) \subseteq KeysOf(todo[c])
<1>1. PICK s : todo' = [todo EXCEPT ![c] = s] /\ s \in {Tail(todo[c]), <<>>}
  BY DEF GetItem, GetItemFails, SetItem, Refused
<1>2. todo[c] # <<>>
  BY DEF GetItem, GetItemFails, SetItem, Refused, Request
<1>3. KeysOf(Tail(todo[c])) \subseteq KeysOf(todo[c]) /\ Head(todo[c]).key \in KeysOf(todo[c])
  BY <1>2, TailOK DEF DatabaseInv, CallInv
<1>4. KeysOf(<<>>) = {}
  BY DEF KeysOf
<1>5. KeysOf(s) \subseteq KeysOf(todo[c])
  BY <1>1, <1>3, <1>4
<1> QED BY <1>1, <1>3, <1>5

\* A write overtakes nobody when no other call uses its key.
LEMMA NoneOvertaken ==
    ASSUME DatabaseInv, ApartInv, NEW c \in Callers, SetItem(c)
    PROVE  overtaken' = {}
<1> DEFINE key == Head(todo[c]).key
<1>1. overtaken' = {d \in Callers \ {c} : HasRead(d, key)}
  BY DEF SetItem, ApartInv
<1>2. key \in KeysOf(todo[c])
  BY RequestDrops
<1>3. ASSUME NEW d \in Callers, d # c, HasRead(d, key) PROVE FALSE
  <2>1. todo[d] # <<>> /\ Head(todo[d]).key = key
    BY <1>3 DEF HasRead, Request
  <2>2. key \in KeysOf(todo[d])
    <3>1. Head(todo[d]).key \in KeysOf(todo[d])
      BY <2>1, TailOK DEF DatabaseInv, CallInv
    <3> QED BY <2>1, <3>1
  <2>3. KeysOf(todo[d]) \cap KeysOf(todo[c]) = {}
    BY <1>3 DEF ApartInv, Separate
  <2> QED BY <1>2, <2>2, <2>3
<1> HIDE DEF key
<1> QED BY <1>1, <1>3

\* Without overlapping calls every step keeps them apart.
LEMMA ApartNext == ~Overlap /\ DatabaseInv /\ ApartInv /\ [Next]_vars => ApartInv'
<1> SUFFICES ASSUME ~Overlap, DatabaseInv, ApartInv, [Next]_vars PROVE ApartInv'
  OBVIOUS
<1>0. Shape
  BY DEF DatabaseInv
<1>1. ASSUME NEW c \in Callers, NEW cl \in Calls, Start(c, cl) PROVE ApartInv'
  <2>1. /\ todo' = [todo EXCEPT ![c] = cl] /\ overtaken' = overtaken
        /\ \A d \in Callers : KeysOf(todo[d]) \cap KeysOf(cl) = {}
    BY <1>1 DEF Start
  <2>2. \A a, b \in Callers : a # b => Separate(a, b)'
    BY <1>0, <2>1, SeparateKeeps
  <2> QED BY <2>1, <2>2 DEF ApartInv
<1>2. ASSUME NEW c \in Callers, GetItem(c) \/ GetItemFails(c) \/ SetItem(c) \/ Refused(c)
      PROVE  ApartInv'
  <2>1. \A a, b \in Callers : a # b => Separate(a, b)'
    BY <1>0, <1>2, RequestDrops, SeparateKeeps
  <2>2. overtaken' = {}
    BY <1>2, NoneOvertaken DEF GetItem, GetItemFails, Refused, ApartInv
  <2> QED BY <2>1, <2>2 DEF ApartInv
<1>3. CASE UNCHANGED vars
  <2>1. todo' = todo /\ overtaken' = overtaken
    BY <1>3 DEF vars
  <2>2. ASSUME NEW a \in Callers, NEW b \in Callers, a # b PROVE Separate(a, b)'
    <3>1. Separate(a, b)
      BY <2>2 DEF ApartInv
    <3> QED BY <2>1, <3>1, Zenon DEF Separate, KeysOf
  <2> QED BY <2>1, <2>2 DEF ApartInv
<1> QED BY <1>1, <1>2, <1>3 DEF Next

\* ApartAlways: without overlapping calls nobody is overtaken.
THEOREM ApartAlways == ASSUME ~Overlap PROVE Spec => []ApartInv
<1>1. Init => ApartInv
  <2> SUFFICES ASSUME Init PROVE ApartInv
    OBVIOUS
  <2>1. \A c \in Callers : KeysOf(todo[c]) = {}
    BY DEF Init, KeysOf
  <2> QED BY <2>1 DEF Init, ApartInv, Separate
<1>2. DatabaseInv /\ ApartInv /\ [Next]_vars => ApartInv'
  BY ApartNext
<1> QED BY <1>1, <1>2, DatabaseInvAlways, PTL DEF Spec

-----------------------------------------------------------------------------
(***************************************************************************)
(* Type correctness, whether or not calls overlap.                         *)
(***************************************************************************)
\* What a call has read is a value of the key it writes next.
CallTypes(c) ==
    /\ todo[c] \in Seq(Requests) /\ RequestsOK(todo[c])
    /\ outcome[c] = "none" => todo[c] = <<>> /\ read[c] = None
    /\ outcome[c] = "resolved" => todo[c] = <<>>
    /\ Len(todo[c]) > 1 => read[c] = None
    /\ Len(todo[c]) = 1 => /\ todo[c][1].act = "write"
                           /\ read[c] = None \/ read[c] \in Kind(todo[c][1].key)

Outcomes == {"none", "pending", "resolved", "rejected"}

TypesInv ==
    /\ Shape
    /\ \A k \in Keys : db[k] \in Kind(k)
    /\ readFailed \in BOOLEAN /\ overtaken \subseteq Callers
    /\ outcome \in [Callers -> Outcomes]
    /\ \A c \in Callers : CallTypes(c)

LEMMA TypesInit == Init => TypesInv
<1> SUFFICES ASSUME Init PROVE TypesInv
  OBVIOUS
<1>1. Shape
  BY DEF Init, Shape, EmptyDb
<1>2. \A c \in Callers : todo[c] = <<>> /\ read[c] = None /\ outcome[c] = "none"
  BY DEF Init
<1>3. <<>> \in Seq(Requests) /\ Len(<<>>) = 0 /\ RequestsOK(<<>>)
  BY DEF RequestsOK
<1>4. ASSUME NEW c \in Callers PROVE CallTypes(c)
  <2>1. todo[c] \in Seq(Requests) /\ RequestsOK(todo[c]) /\ Len(todo[c]) = 0
    BY <1>2, <1>3
  <2> QED BY <1>2, <2>1 DEF CallTypes
<1>5. \A k \in Keys : db[k] \in Kind(k)
  BY DefaultFits DEF Init
<1>6. readFailed \in BOOLEAN /\ overtaken \subseteq Callers /\ outcome \in [Callers -> Outcomes]
  BY DEF Init, Outcomes
<1> QED BY <1>1, <1>4, <1>5, <1>6 DEF TypesInv

\* What is left to the other calls stays as it is.
LEMMA OtherTypes ==
    ASSUME TypesInv, NEW d \in Callers,
           todo'[d] = todo[d], read'[d] = read[d], outcome'[d] = outcome[d]
    PROVE  CallTypes(d)'
<1>1. CallTypes(d)
  BY DEF TypesInv
<1> QED BY <1>1 DEF CallTypes, RequestsOK

LEMMA StartTypes ==
    ASSUME TypesInv, NEW c \in Callers, NEW cl \in Calls, Start(c, cl)
    PROVE  TypesInv'
<1>1. /\ todo' = [todo EXCEPT ![c] = cl] /\ outcome' = [outcome EXCEPT ![c] = "pending"]
      /\ db' = db /\ read' = read /\ readFailed' = readFailed /\ outcome[c] = "none"
  BY DEF Start
<1>2. Shape' /\ outcome' \in [Callers -> Outcomes] /\ overtaken' = overtaken
  BY <1>1 DEF TypesInv, Shape, Outcomes, Start
<1>3. todo'[c] = cl /\ outcome'[c] = "pending" /\ read'[c] = None
  BY <1>1 DEF TypesInv, Shape, CallTypes
<1>4. CallTypes(c)'
  <2>1. cl \in Seq(Requests) /\ RequestsOK(cl) /\ (Len(cl) = 1 => cl[1].act = "write")
    BY CallIsSeq, CallsOK DEF CallOK
  <2>2. RequestsOK(todo[c])'
    BY <1>3, <2>1 DEF RequestsOK
  <2> QED BY <1>3, <2>1, <2>2 DEF CallTypes
<1>5. ASSUME NEW d \in Callers, d # c PROVE CallTypes(d)'
  BY <1>1, <1>5, OtherTypes DEF TypesInv, Shape
<1> QED BY <1>1, <1>2, <1>4, <1>5 DEF TypesInv

\* A read returns a value of its key, or the default of the key.
LEMMA ReadTypes ==
    ASSUME TypesInv, NEW c \in Callers, GetItem(c) \/ GetItemFails(c)
    PROVE  TypesInv'
<1> DEFINE key == Head(todo[c]).key
           rest == Tail(todo[c])
<1>1. PICK v : read' = [read EXCEPT ![c] = v] /\ (v = db[key] \/ v = EmptyDb[key])
  BY DEF GetItem, GetItemFails, ReadItem
<1>2. /\ todo[c] # <<>> /\ Head(todo[c]).act = "read" /\ todo' = [todo EXCEPT ![c] = rest]
      /\ db' = db /\ outcome' = outcome /\ readFailed' \in BOOLEAN /\ overtaken' = overtaken
  BY DEF GetItem, GetItemFails, Request, TypesInv
<1>3. CallTypes(c) /\ Shape
  BY DEF TypesInv
<1>4. /\ rest \in Seq(Requests) /\ RequestsOK(rest) /\ Len(rest) = 1 /\ rest[1].act = "write"
      /\ rest[1].key = key /\ key \in Keys
  BY <1>2, <1>3, TailOK DEF CallTypes
<1>5. v \in Kind(key)
  BY <1>1, <1>4, DefaultFits DEF TypesInv
<1>6. todo'[c] = rest /\ read'[c] = v /\ outcome'[c] = outcome[c]
      /\ outcome[c] # "none" /\ outcome[c] # "resolved"
  BY <1>1, <1>2, <1>3 DEF Shape, CallTypes
<1> HIDE DEF rest, key
<1>7. CallTypes(c)'
  <2>1. read'[c] \in Kind(todo'[c][1].key)
    BY <1>4, <1>5, <1>6
  <2>2. RequestsOK(todo[c])'
    BY <1>4, <1>6 DEF RequestsOK
  <2>3. todo'[c] \in Seq(Requests) /\ todo'[c][1].act = "write" /\ ~(Len(todo'[c]) > 1)
    <3>1. ~(1 > 1)
      OBVIOUS
    <3> QED BY <1>4, <1>6, <3>1, Zenon
  <2> QED BY <1>6, <2>1, <2>2, <2>3, Zenon DEF CallTypes, Kind
<1>8. ASSUME NEW d \in Callers, d # c PROVE CallTypes(d)'
  BY <1>1, <1>2, <1>3, <1>8, OtherTypes DEF Shape
<1>9. Shape'
  BY <1>1, <1>2, <1>3 DEF Shape
<1> QED BY <1>2, <1>7, <1>8, <1>9 DEF TypesInv

\* A write writes a value of its key, and a call is resolved with its last one.
LEMMA WriteTypes ==
    ASSUME TypesInv, NEW c \in Callers, SetItem(c) \/ Refused(c)
    PROVE  TypesInv'
<1> DEFINE req == Head(todo[c])
<1>1. PICK s : todo' = [todo EXCEPT ![c] = s] /\ s \in {Tail(todo[c]), <<>>}
  BY DEF SetItem, Refused
<1>2. /\ todo[c] # <<>> /\ req.act = "write" /\ read' = read /\ readFailed' = readFailed
  BY DEF SetItem, Refused, Request
<1>3. CallTypes(c) /\ Shape /\ outcome \in [Callers -> Outcomes]
  BY DEF TypesInv
<1>4. /\ Tail(todo[c]) \in Seq(Requests) /\ RequestsOK(Tail(todo[c]))
      /\ Len(Tail(todo[c])) = Len(todo[c]) - 1
      /\ Len(Tail(todo[c])) = 1 => Tail(todo[c])[1].act = "write"
      /\ req = todo[c][1] /\ req.key \in Keys
  BY <1>2, <1>3, TailOK DEF CallTypes
<1>5. Len(todo[c]) \in Nat /\ Len(todo[c]) > 0 /\ Len(Tail(todo[c])) \in Nat /\ 1 \in 1..Len(todo[c])
  BY <1>2, <1>3, <1>4 DEF CallTypes
<1>6. /\ s \in Seq(Requests) /\ RequestsOK(s) /\ Len(s) < Len(todo[c]) /\ Len(s) \in Nat
      /\ Len(s) = 1 => s[1].act = "write"
  <2>1. CASE s = Tail(todo[c])
    <3>1. Len(Tail(todo[c])) < Len(todo[c])
      BY <1>5, <1>4
    <3> QED BY <2>1, <3>1, <1>5, <1>4, Zenon
  <2>2. CASE s = <<>>
    <3>1. s \in Seq(Requests) /\ Len(s) = 0 /\ RequestsOK(s)
      BY <2>2 DEF RequestsOK
    <3> QED BY <3>1, <1>5
  <2> QED BY <1>1, <2>1, <2>2
<1>7. PICK o \in Outcomes : /\ outcome' = [outcome EXCEPT ![c] = o]
                            /\ o # "none" /\ (o = "resolved" => s = <<>>)
  <2>1. outcome[c] \in {"pending", "rejected"}
    BY <1>2, <1>3 DEF CallTypes, Outcomes
  <2>2. CASE Refused(c)
    BY <2>2 DEF Refused, Outcomes
  <2>3. CASE SetItem(c)
    <3>1. /\ todo' = [todo EXCEPT ![c] = Tail(todo[c])]
          /\ outcome' = [outcome EXCEPT ![c] = IF outcome[c] = "pending" /\ Len(todo[c]) = 1
                                                THEN "resolved" ELSE outcome[c]]
      BY <2>3 DEF SetItem
    <3>2. s = Tail(todo[c])
      BY <1>1, <1>3, <3>1 DEF Shape
    <3>3. Len(todo[c]) = 1 => s = <<>>
      BY <1>4, <3>2
    <3> QED BY <2>1, <3>1, <3>3 DEF Outcomes
  <2> QED BY <2>2, <2>3
<1>8. Shape' /\ \A k \in Keys : db'[k] \in Kind(k)
  <2>1. CASE Refused(c)
    BY <1>1, <1>2, <1>3, <1>7, <2>1 DEF Refused, Shape, TypesInv
  <2>2. CASE SetItem(c)
    <3> DEFINE old == IF read[c] = None THEN db[req.key] ELSE read[c]
    <3>1. db' = [db EXCEPT ![req.key] = Apply(req.u, old)]
      BY <2>2 DEF SetItem
    <3>2. old \in Kind(req.key)
      <4>1. read[c] = None \/ read[c] \in Kind(req.key)
        <5>1. CASE Len(todo[c]) = 1
          BY <1>3, <1>4, <5>1, Zenon DEF CallTypes
        <5>2. CASE Len(todo[c]) > 1
          BY <1>3, <5>2, Zenon DEF CallTypes
        <5>3. Len(todo[c]) = 1 \/ Len(todo[c]) > 1
          <6>1. \A n \in Nat : n > 0 => n = 1 \/ n > 1
            OBVIOUS
          <6> QED BY <1>5, <6>1, Zenon
        <5> QED BY <5>1, <5>2, <5>3
      <4> QED BY <1>4, <4>1 DEF TypesInv
    <3>3. Fits(req.u, req.key)
      BY <1>2, <1>3, <1>4, <1>5, Zenon DEF CallTypes, RequestsOK
    <3> HIDE DEF old, req
    <3>4. Apply(req.u, old) \in Kind(req.key)
      BY <3>2, <3>3 DEF Fits
    <3>5. /\ DOMAIN db' = Keys /\ db' = [k \in Keys |-> db'[k]]
          /\ \A k \in Keys : db'[k] = IF k = req.key THEN Apply(req.u, old) ELSE db[k]
      BY <1>3, <1>4, <3>1 DEF Shape
    <3>6. \A k \in Keys : db'[k] \in Kind(k)
      BY <3>4, <3>5 DEF TypesInv
    <3>7. Shape'
      BY <1>1, <1>2, <1>3, <1>7, <3>5 DEF Shape
    <3> QED BY <3>6, <3>7
  <2> QED BY <2>1, <2>2
<1>9. /\ todo'[c] = s /\ read'[c] = read[c] /\ outcome'[c] = o
      /\ \A d \in Callers : d # c => /\ todo'[d] = todo[d] /\ read'[d] = read[d]
                                     /\ outcome'[d] = outcome[d]
  BY <1>1, <1>2, <1>3, <1>7 DEF Shape
<1>10. CallTypes(c)'
  <2>1. Len(s) > 0 => read[c] = None
    <3>1. Len(s) > 0 => Len(todo[c]) > 1
      BY <1>5, <1>6
    <3> QED BY <1>3, <3>1, Zenon DEF CallTypes
  <2>2. RequestsOK(todo[c])'
    BY <1>6, <1>9 DEF RequestsOK
  <2>3. (Len(s) > 1 => read[c] = None) /\ (Len(s) = 1 => read[c] = None)
    BY <1>6, <2>1
  <2> QED BY <1>6, <1>7, <1>9, <2>2, <2>3, Zenon DEF CallTypes
<1>11. ASSUME NEW d \in Callers, d # c PROVE CallTypes(d)'
  BY <1>9, <1>11, OtherTypes
<1>12. outcome' \in [Callers -> Outcomes] /\ readFailed' \in BOOLEAN /\ overtaken' \subseteq Callers
  <2>1. overtaken' \subseteq Callers
    BY DEF SetItem, Refused, TypesInv
  <2> QED BY <1>2, <1>7, <2>1 DEF TypesInv
<1> QED BY <1>8, <1>10, <1>11, <1>12 DEF TypesInv

\* TypesInvAlways: every step keeps the types, however calls overlap.
LEMMA TypesInvAlways == Spec => []TypesInv
<1>1. TypesInv /\ [Next]_vars => TypesInv'
  <2> SUFFICES ASSUME TypesInv, [Next]_vars PROVE TypesInv'
    OBVIOUS
  <2>1. CASE UNCHANGED vars
    <3>1. /\ db' = db /\ todo' = todo /\ read' = read /\ outcome' = outcome
          /\ readFailed' = readFailed /\ overtaken' = overtaken
      BY <2>1 DEF vars
    <3>2. Shape'
      BY <3>1 DEF TypesInv, Shape
    <3>3. ASSUME NEW d \in Callers PROVE CallTypes(d)'
      BY <3>1, OtherTypes
    <3> QED BY <3>1, <3>2, <3>3 DEF TypesInv
  <2> QED BY <2>1, StartTypes, ReadTypes, WriteTypes DEF Next
<1> QED BY <1>1, TypesInit, PTL DEF Spec

\* TypeCorrect: every key of the database holds a value of its own kind, for every
\* set of callers, identifiers and values, whatever calls overlap, whichever reads
\* fall back to a default and whichever writes are refused; a call that is resolved
\* has made all its requests.
THEOREM TypeCorrect == Spec => []TypeOK
<1>1. TypesInv => TypeOK
  <2> SUFFICES ASSUME TypesInv PROVE TypeOK
    OBVIOUS
  <2>1. DOMAIN db = Keys /\ readFailed \in BOOLEAN /\ overtaken \subseteq Callers
    BY DEF TypesInv, Shape
  <2>2. db.commitments \in Seq(Commitments) /\ db.transactions \in Seq(Transactions)
    <3>1. "commitments" \in Keys /\ "transactions" \in Keys
      BY DEF Keys, ListKeys
    <3> QED BY <3>1, Kinds DEF TypesInv
  <2>3. \A k \in RecordKeys : db[k] \in [Fields(k) -> Values]
    BY Kinds DEF TypesInv, Keys
  <2>4. outcome \in [Callers -> {"none", "pending", "resolved", "rejected"}]
    BY DEF TypesInv, Outcomes
  <2>5. \A c \in Callers : outcome[c] \in {"none", "resolved"} => todo[c] = <<>>
    BY DEF TypesInv, CallTypes
  <2> QED BY <2>1, <2>2, <2>3, <2>4, <2>5 DEF TypeOK
<1> QED BY <1>1, TypesInvAlways, PTL

-----------------------------------------------------------------------------
(***************************************************************************)
(* The refinement.                                                         *)
(***************************************************************************)
\* A step of the database is a step of the atomic store, or the write of a call
\* that was overtaken.
LEMMA StepRefines ==
    DatabaseInv /\ [Next]_vars => [Atomic!Next \/ \E c \in overtaken : SetItem(c)]_<<db, readFailed>>
<1> SUFFICES ASSUME DatabaseInv, [Next]_vars
             PROVE  Atomic!Next \/ (\E c \in overtaken : SetItem(c)) \/ UNCHANGED <<db, readFailed>>
  OBVIOUS
<1>1. ASSUME NEW c \in Callers, NEW cl \in Calls, Start(c, cl) PROVE UNCHANGED <<db, readFailed>>
  BY <1>1 DEF Start
<1>2. ASSUME NEW c \in Callers, GetItem(c) \/ Refused(c) PROVE UNCHANGED <<db, readFailed>>
  BY <1>2 DEF GetItem, Refused
<1>3. ASSUME NEW c \in Callers, GetItemFails(c) PROVE Atomic!Next
  BY <1>3 DEF GetItemFails, Atomic!Next, Atomic!FailRead
<1>4. ASSUME NEW c \in Callers, SetItem(c), c \notin overtaken PROVE Atomic!Next
  <2>1. PICK key \in Keys : \E u \in Updates[key] :
              \/ db' = [db EXCEPT ![key] = Apply(u, db[key])]
              \/ readFailed /\ db' = [db EXCEPT ![key] = Apply(u, EmptyDb[key])]
    BY <1>4, WriteIsUpdate
  <2>2. PICK u \in Updates[key] :
              \/ db' = [db EXCEPT ![key] = Apply(u, db[key])]
              \/ readFailed /\ db' = [db EXCEPT ![key] = Apply(u, EmptyDb[key])]
    BY <2>1
  <2>3. readFailed' = readFailed
    BY <1>4 DEF SetItem
  <2>4. Atomic!Update(key, u) \/ Atomic!StartOver(key, u)
    BY <2>2, <2>3 DEF Atomic!Update, Atomic!StartOver
  <2> QED BY <2>4 DEF Atomic!Next
<1>5. CASE UNCHANGED vars
  BY <1>5 DEF vars
<1> QED BY <1>1, <1>2, <1>3, <1>4, <1>5 DEF Next

\* LossOnlyOvertaken: for every set of callers, identifiers and values, and with any
\* overlap of their calls, the database is an atomic store but for the writes of
\* calls that were overtaken: a call that nobody overtook writes one update of what
\* its key holds, or of the default once a read has failed.
THEOREM LossOnlyOvertaken == Spec => OnlyOvertakenWritesLose
<1>1. DatabaseInv /\ [Next]_vars => [Atomic!Next \/ \E c \in overtaken : SetItem(c)]_<<db, readFailed>>
  BY StepRefines
<1> QED BY <1>1, DatabaseInvAlways, PTL DEF Spec, OnlyOvertakenWritesLose

\* DatabaseRefinement: when the calls on one key do not overlap nobody is overtaken,
\* and database.ts is an atomic store.
THEOREM DatabaseRefinement == ASSUME ~Overlap PROVE Spec => ImplementsAtomicStore
<1>1. Init => Atomic!Init
  BY DEF Init, Atomic!Init
<1>2. DatabaseInv /\ ApartInv /\ [Next]_vars => [Atomic!Next]_<<db, readFailed>>
  <2>1. ApartInv => ~ \E c \in overtaken : SetItem(c)
    BY DEF ApartInv
  <2> QED BY <2>1, StepRefines
<1>3. Spec => []DatabaseInv /\ []ApartInv
  BY DatabaseInvAlways, ApartAlways, PTL
<1> QED BY <1>1, <1>2, <1>3, PTL DEF Spec, ImplementsAtomicStore, Atomic!Spec
=============================================================================
