------------------------ MODULE FlattenRegistryProofs ------------------------
(***************************************************************************)
(* Proofs about FlattenRegistry, for any paths and naming, any cap, batch   *)
(* size and number of runs.  `register` is shown to name each path apart    *)
(* from all others (a free suffix exists by the pigeonhole principle), the  *)
(* registration of a body by induction on its fields, and the properties of *)
(* the table from what the state and the registry agree on.                 *)
(***************************************************************************)
EXTENDS FlattenRegistry, InductionLemmas, TLAPS, FiniteSetTheorems

(***************************************************************************)
(* The registry.                                                           *)
(***************************************************************************)

Registered(r) == DOMAIN r.columns \cup DOMAIN r.provisional

NamesApart(r) ==
    \A p \in Registered(r) :
        /\ NameOf(r, p) \notin Reserved \cup {Unmapped}
        /\ \A q \in Registered(r) : NameOf(r, p) = NameOf(r, q) => p = q

RegistryOK(r) ==
    /\ r = [columns |-> r.columns, provisional |-> r.provisional]
    /\ r.columns \in [DOMAIN r.columns -> Names]
    /\ r.provisional \in [DOMAIN r.provisional -> Names]
    /\ Registered(r) \subseteq Paths
    /\ DOMAIN r.columns \cap DOMAIN r.provisional = {}
    /\ Cardinality(DOMAIN r.columns) <= MaxColumns
    /\ NamesApart(r)

\* s is r with more paths registered, each with the name it had.
Grows(r, s) ==
    /\ DOMAIN r.columns \subseteq DOMAIN s.columns
    /\ DOMAIN r.provisional \subseteq DOMAIN s.provisional
    /\ \A p \in Registered(r) : NameOf(s, p) = NameOf(r, p)

\* The names in use are at most the reserved ones, body_unmapped, and one per path.
LEMMA TakenIsSmall ==
    ASSUME NEW r, RegistryOK(r)
    PROVE  /\ IsFiniteSet(Taken(r))
           /\ Cardinality(Taken(r)) <= Cardinality(Reserved) + Cardinality(Paths) + 1
<1>. DEFINE names == Range(r.columns) \cup Range(r.provisional)
            f == [p \in Registered(r) |-> NameOf(r, p)]
            fixed == Reserved \cup {Unmapped}
<1>1. IsFiniteSet(Registered(r)) /\ Cardinality(Registered(r)) <= Cardinality(Paths)
  BY NamesAssumption, FS_Subset DEF RegistryOK
<1>2. f \in Surjection(Registered(r), names)
  BY DEF RegistryOK, Registered, NameOf, Range, Surjection
<1>3. IsFiniteSet(names) /\ Cardinality(names) <= Cardinality(Registered(r))
  <2>. HIDE DEF f, names
  <2>. QED BY <1>1, <1>2, FS_Surjection
<1>4. IsFiniteSet(fixed) /\ Cardinality(fixed) = Cardinality(Reserved) + 1
  BY NamesAssumption, FS_AddElement
<1>5. Taken(r) = fixed \cup names
  BY DEF Taken
<1>6. /\ Cardinality(names) \in Nat /\ Cardinality(Registered(r)) \in Nat
      /\ Cardinality(Paths) \in Nat /\ Cardinality(Reserved) \in Nat
      /\ Cardinality(fixed \cap names) \in Nat
  BY <1>1, <1>3, <1>4, NamesAssumption, FS_CardinalityType, FS_Intersection
<1>7. /\ IsFiniteSet(fixed \cup names)
      /\ Cardinality(fixed \cup names) =
             Cardinality(fixed) + Cardinality(names) - Cardinality(fixed \cap names)
  <2>. HIDE DEF fixed, names
  <2>. QED BY <1>3, <1>4, FS_Union
<1>. HIDE DEF fixed, names
<1>. QED BY <1>1, <1>3, <1>4, <1>5, <1>6, <1>7

\* _unique_name: its loop finds a name that nothing of the run has.
LEMMA UniqueNameIsFree ==
    ASSUME NEW r, RegistryOK(r), NEW path \in Paths
    PROVE  UniqueName(r, path) \in Names \ Taken(r)
<1>. DEFINE base == ColumnNameFor[path]
            free == {n \in SuffixNumbers : Suffixed[base][n] \notin Taken(r)}
<1>0. base \in Names /\ base \in Bases
  BY NamesAssumption DEF Bases
<1>1. CASE base \notin Taken(r)
  BY <1>0, <1>1 DEF UniqueName
<1>2. CASE base \in Taken(r)
  <2>1. Cardinality(Reserved) \in Nat /\ Cardinality(Paths) \in Nat
    BY NamesAssumption, FS_CardinalityType
  <2>2. /\ IsFiniteSet(SuffixNumbers)
        /\ Cardinality(SuffixNumbers) = Cardinality(Reserved) + Cardinality(Paths) + 2
    <3>. DEFINE last == Cardinality(Reserved) + Cardinality(Paths) + 3
    <3>1. last \in Int /\ 2 \in Int /\ ~(2 > last)
      BY <2>1
    <3>2. IsFiniteSet(2..last) /\ Cardinality(2..last) = last - 2 + 1
      <4>. HIDE DEF last
      <4>. QED BY <3>1, FS_Interval
    <3>. QED BY <2>1, <3>2 DEF SuffixNumbers
  <2>3. IsFiniteSet(Taken(r)) /\ Cardinality(Taken(r)) < Cardinality(SuffixNumbers)
    BY <2>1, <2>2, TakenIsSmall, FS_CardinalityType
  <2>4. free # {}
    <3>. SUFFICES ASSUME free = {} PROVE FALSE
      OBVIOUS
    <3>. DEFINE f == [n \in SuffixNumbers |-> Suffixed[base][n]]
    <3>1. f \in [SuffixNumbers -> Taken(r)]
      OBVIOUS
    <3>2. PICK x \in SuffixNumbers, y \in SuffixNumbers : x # y /\ f[x] = f[y]
      <4>. HIDE DEF f
      <4>. QED BY <2>2, <2>3, <3>1, FS_PigeonHole
    <3>. QED BY <1>0, <3>2, NamesAssumption
  <2>5. free \subseteq Nat
    BY <2>1 DEF SuffixNumbers
  <2>6. \E n \in free : \A m \in free : n <= m
    <3>. HIDE DEF free
    <3>. QED BY <2>4, <2>5, LeastNatural
  <2>. DEFINE first == CHOOSE n \in free : \A m \in free : n <= m
  <2>7. first \in free
    <3>. HIDE DEF free
    <3>. QED BY <2>6
  <2>8. UniqueName(r, path) = Suffixed[base][first]
    BY <1>2 DEF UniqueName
  <2>. HIDE DEF first
  <2>. QED BY <1>0, <2>7, <2>8, NamesAssumption
<1>. QED BY <1>1, <1>2

\* register: one path more has a name, and no other path's name changes.
LEMMA RegisterOne ==
    ASSUME NEW r, RegistryOK(r), NEW path \in Paths
    PROVE  /\ RegistryOK(Register(r, path)) /\ Grows(r, Register(r, path))
           /\ path \in Registered(Register(r, path))
<1>. DEFINE name == UniqueName(r, path)
            s == Register(r, path)
<1>1. CASE path \in Registered(r)
  BY <1>1 DEF Registered, Register, Grows, NameOf
<1>2. CASE path \notin Registered(r)
  <2>1. name \in Names \ Taken(r)
    BY UniqueNameIsFree
  <2>2. \A p \in Registered(r) : NameOf(r, p) # name
    BY <2>1 DEF Taken, Range, NameOf, Registered
  <2>3. /\ s = [columns |-> s.columns, provisional |-> s.provisional]
        /\ \/ /\ Full(r) /\ s.columns = r.columns
              /\ s.provisional = Extended(r.provisional, path, name)
           \/ /\ ~Full(r) /\ s.columns = Extended(r.columns, path, name)
              /\ s.provisional = r.provisional
    BY <1>2 DEF Registered, Register, RegistryOK
  <2>. HIDE DEF s, name
  <2>4. Registered(s) = Registered(r) \cup {path}
    BY <2>3 DEF Registered, Extended
  <2>5. /\ s.columns \in [DOMAIN s.columns -> Names]
        /\ s.provisional \in [DOMAIN s.provisional -> Names]
        /\ DOMAIN s.columns \cap DOMAIN s.provisional = {}
    BY <1>2, <2>1, <2>3 DEF RegistryOK, Extended, Registered
  <2>6. Cardinality(DOMAIN s.columns) <= MaxColumns
    <3>1. IsFiniteSet(DOMAIN r.columns)
      BY NamesAssumption, FS_Subset DEF RegistryOK, Registered
    <3>2. CASE s.columns = r.columns
      BY <3>2 DEF RegistryOK
    <3>3. CASE ~Full(r) /\ s.columns = Extended(r.columns, path, name)
      <4>1. DOMAIN s.columns = DOMAIN r.columns \cup {path} /\ path \notin DOMAIN r.columns
        BY <1>2, <3>3 DEF Extended, Registered
      <4>2. Cardinality(DOMAIN s.columns) = Cardinality(DOMAIN r.columns) + 1
        BY <3>1, <4>1, FS_AddElement
      <4>3. Cardinality(DOMAIN r.columns) \in Nat
        BY <3>1, FS_CardinalityType
      <4>. QED BY <3>3, <4>2, <4>3, NamesAssumption DEF Full
    <3>. QED BY <2>3, <3>2, <3>3
  <2>7. NameOf(s, path) = name
    BY <1>2, <2>3 DEF NameOf, Extended, Registered
  <2>8. \A p \in Registered(r) : NameOf(s, p) = NameOf(r, p)
    BY <1>2, <2>3 DEF NameOf, Extended, Registered
  <2>9. NamesApart(s)
    BY <2>1, <2>2, <2>4, <2>7, <2>8 DEF NamesApart, RegistryOK, Taken
  <2>10. Grows(r, s)
    BY <2>3, <2>8 DEF Grows, Extended
  <2>11. RegistryOK(s)
    BY <2>3, <2>4, <2>5, <2>6, <2>9 DEF RegistryOK
  <2>. QED BY <2>4, <2>10, <2>11 DEF s
<1>. QED BY <1>1, <1>2

\* _to_row: after a body's fields are registered one by one, all of them have a
\* name, apart from all others, and every path named before keeps its name.
LEMMA RegisterBody ==
    ASSUME NEW r, RegistryOK(r), NEW m, m.fields \in Seq(Paths)
    PROVE  /\ RegistryOK(RegisterAll(r, m)) /\ Grows(r, RegisterAll(r, m))
           /\ ToSet(m.fields) \subseteq Registered(RegisterAll(r, m))
<1>. DEFINE s == m.fields
            Is(g, n) == g = [i \in 0..n |-> IF i = 0 THEN r ELSE Register(g[i - 1], s[i])]
            undefined == {n \in 0..Len(s) : ~\E g : Is(g, n)}
            after == CHOOSE g : Is(g, Len(s))
<1>0. Len(s) \in Nat /\ Len(s) \in 0..Len(s)
  OBVIOUS
<1>1. ASSUME undefined # {} PROVE FALSE
  <2>1. undefined \subseteq Nat
    OBVIOUS
  <2>2. PICK n \in undefined : \A k \in undefined : n <= k
    <3>. HIDE DEF undefined
    <3>. QED BY <1>1, <2>1, LeastNatural
  <2>3. n # 0
    <3>1. Is([i \in 0..0 |-> r], 0)
      OBVIOUS
    <3>. QED BY <2>2, <3>1
  <2>4. n \in 1..Len(s) /\ \E g : Is(g, n - 1)
    <3>. HIDE DEF Is
    <3>. QED BY <2>2, <2>3
  <2>5. PICK g : Is(g, n - 1)
    BY <2>4
  <2>. DEFINE h == [i \in 0..n |-> IF i < n THEN g[i] ELSE Register(g[n - 1], s[n])]
  <2>6. Is(h, n)
    <3>0. n \in Nat /\ 1 <= n
      BY <2>4
    <3>1. \A i \in 0..(n - 1) : g[i] = IF i = 0 THEN r ELSE Register(g[i - 1], s[i])
      BY <2>5
    <3>2. ASSUME NEW i \in 0..n PROVE h[i] = IF i = 0 THEN r ELSE Register(h[i - 1], s[i])
      <4>1. CASE i = 0
        <5>1. h[0] = g[0] /\ g[0] = r
          BY <3>0, <3>1
        <5>. QED BY <4>1, <5>1
      <4>2. CASE i # 0 /\ i < n
        <5>1. i \in 0..(n - 1) /\ i - 1 \in 0..n /\ i - 1 < n
          BY <3>0, <4>2
        <5>2. h[i] = g[i] /\ h[i - 1] = g[i - 1] /\ g[i] = Register(g[i - 1], s[i])
          BY <3>1, <4>2, <5>1
        <5>. QED BY <4>2, <5>2
      <4>3. CASE i = n
        <5>1. n - 1 \in 0..n /\ n - 1 < n /\ n \in 0..n /\ ~(n < n) /\ n # 0
          BY <3>0
        <5>2. h[n] = Register(g[n - 1], s[n]) /\ h[n - 1] = g[n - 1]
          BY <5>1
        <5>. QED BY <4>3, <5>1, <5>2
      <4>. QED BY <3>0, <4>1, <4>2, <4>3
    <3>3. h = [i \in 0..n |-> h[i]]
      OBVIOUS
    <3>. HIDE DEF h
    <3>. QED BY <3>2, <3>3
  <2>. HIDE DEF h, Is
  <2>. QED BY <2>2, <2>6
<1>2. \E g : Is(g, Len(s))
  <2>. HIDE DEF Is
  <2>1. Len(s) \notin undefined
    BY <1>1
  <2>. QED BY <1>0, <2>1
<1>3. Is(after, Len(s))
  <2>. HIDE DEF Is
  <2>. QED BY <1>2
<1>4. RegisterAll(r, m) = after[Len(s)]
  BY DEF RegisterAll
<1>. HIDE DEF after
<1>. DEFINE Good(i) == /\ RegistryOK(after[i]) /\ Grows(r, after[i])
                       /\ \A j \in 1..i : s[j] \in Registered(after[i])
            bad == {i \in 0..Len(s) : ~Good(i)}
<1>5. ASSUME bad # {} PROVE FALSE
  <2>1. bad \subseteq Nat
    OBVIOUS
  <2>2. PICK i \in bad : \A k \in bad : i <= k
    <3>. HIDE DEF bad
    <3>. QED BY <1>5, <2>1, LeastNatural
  <2>3. i # 0
    <3>1. after[0] = r
      BY <1>0, <1>3
    <3>2. Good(0)
      BY <3>1 DEF Grows
    <3>. QED BY <2>2, <3>2
  <2>4. i \in 1..Len(s) /\ Good(i - 1)
    <3>. HIDE DEF Good
    <3>. QED BY <2>2, <2>3
  <2>5. after[i] = Register(after[i - 1], s[i]) /\ s[i] \in Paths
    <3>1. i \in 1..Len(s) /\ i \in 0..Len(s) /\ i # 0
      BY <2>4
    <3>. HIDE DEF Good
    <3>2. after[i] = Register(after[i - 1], s[i])
      BY <1>3, <3>1
    <3>. QED BY <3>1, <3>2
  <2>6. /\ RegistryOK(after[i]) /\ Grows(after[i - 1], after[i])
        /\ s[i] \in Registered(after[i])
    BY <2>4, <2>5, RegisterOne
  <2>7. Grows(r, after[i]) /\ Registered(after[i - 1]) \subseteq Registered(after[i])
    BY <2>4, <2>6 DEF Grows, Registered
  <2>8. \A j \in 1..i : s[j] \in Registered(after[i])
    BY <2>4, <2>6, <2>7
  <2>. QED BY <2>2, <2>6, <2>7, <2>8
<1>6. Good(Len(s))
  <2>. HIDE DEF Good
  <2>1. Len(s) \notin bad
    BY <1>5
  <2>. QED BY <1>0, <2>1
<1>. QED BY <1>4, <1>6 DEF ToSet

(***************************************************************************)
(* The row over its runs.  The inductive invariant: the registry is the     *)
(* saved one with more paths; the table has columns of the body format that *)
(* made it, which for json_flatten are saved ones; every cell of the table and of the output     *)
(* sits in the saved column of its path; what the output left in            *)
(* body_unmapped has the name the registry gave it; and a run that goes on  *)
(* has given no provisional name.                                           *)
(***************************************************************************)

Carried == [columns |-> saved, provisional |-> Empty]
Graph(f) == {<<f[p], p>> : p \in DOMAIN f}
NamesOf(r) == {<<NameOf(r, p), p>> : p \in Registered(r)}

RegistryFollows ==
    /\ RegistryOK(Carried) /\ RegistryOK(registry)
    /\ phase = "idle" => batch = <<>> /\ out = Nothing
    /\ phase = "idle" \/ format = "text" => registry = NoRegistry
    /\ phase # "idle" /\ format = "json_flatten" => Grows(Carried, registry)
    /\ phase \in {"ready", "finished"} => registry.provisional = Empty
    /\ format \in {"text", "json_flatten"}

BatchIsRegistered ==
    /\ batch \in Seq(Messages)
    /\ format = "json_flatten" =>
           \A i \in 1..Len(batch) : ToSet(batch[i].fields) \subseteq Registered(registry)

TableIsMade ==
    /\ made \in {"text", "json_flatten", "none"}
    /\ made = "json_flatten" => columns \subseteq Range(saved) \cup {Unmapped}
    /\ made = "text" => columns \subseteq {BodyColumn}
    /\ made = "none" => columns = {}

TableFollows ==
    /\ TableIsMade
    /\ cells \cup out.cells \cup promised \subseteq Graph(saved)
    /\ out.unmapped \subseteq NamesOf(registry)

FlattenInv == RegistryFollows /\ BatchIsRegistered /\ TableFollows

\* The empty registry is one.
LEMMA EmptyRegistry == RegistryOK(NoRegistry) /\ Registered(NoRegistry) = {}
<1>1. DOMAIN NoRegistry.columns = {} /\ DOMAIN NoRegistry.provisional = {}
  BY DEF NoRegistry, Empty
<1>2. Registered(NoRegistry) = {}
  BY <1>1 DEF Registered
<1>. QED
  BY <1>1, <1>2, NamesAssumption, FS_EmptySet
  DEF RegistryOK, NoRegistry, Empty, NamesApart

\* A body that is registered keeps the invariant of the registry, whether its
\* row joins the batch or is refused for its unmapped cell.
LEMMA RegisterStep ==
    ASSUME FlattenInv, NEW m \in Messages, Receives, registry' = RegisterAll(registry, m),
           format = "json_flatten", UNCHANGED <<durable, job, out>>
    PROVE  /\ RegistryFollows' /\ TableFollows'
           /\ Registered(registry) \cup ToSet(m.fields) \subseteq Registered(registry')
<1>1. /\ RegistryOK(registry') /\ Grows(registry, registry')
      /\ ToSet(m.fields) \subseteq Registered(registry')
  BY RegisterBody, NamesAssumption DEF FlattenInv, RegistryFollows
<1>2. Registered(registry) \subseteq Registered(registry')
  BY <1>1 DEF Grows, Registered
<1>3. Grows(Carried, registry')
  <2>1. Grows(Carried, registry)
    BY DEF FlattenInv, RegistryFollows, Receives
  <2>2. Registered(Carried) \subseteq Registered(registry)
    BY <2>1 DEF Grows, Registered
  <2>. QED BY <1>1, <2>1, <2>2 DEF Grows
<1>4. Carried' = Carried /\ phase' = "batch"
  BY DEF durable, Carried, Receives
<1>5. RegistryFollows'
  BY <1>1, <1>3, <1>4 DEF FlattenInv, RegistryFollows, job
<1>6. NamesOf(registry) \subseteq NamesOf(registry')
  BY <1>1, <1>2 DEF NamesOf, Grows
<1>7. TableFollows'
  BY <1>6 DEF FlattenInv, TableFollows, TableIsMade, durable, table
<1>. QED BY <1>1, <1>2, <1>5, <1>7

\* The cells of a registered body sit in the saved columns, the rest of it under
\* the names of the registry.
LEMMA SplitFollows ==
    ASSUME FlattenInv, phase # "idle", format = "json_flatten",
           NEW m \in Messages, ToSet(m.fields) \subseteq Registered(registry)
    PROVE  /\ Split(registry, m).cells \subseteq Graph(saved)
           /\ Split(registry, m).unmapped \subseteq NamesOf(registry)
<1>1. \A p \in DOMAIN saved : NameOf(registry, p) = saved[p]
  <2>1. Grows(Carried, registry)
    BY DEF FlattenInv, RegistryFollows
  <2>. QED BY <2>1 DEF Grows, Carried, Registered, NameOf
<1>. QED BY <1>1 DEF Split, HasColumn, Graph, NamesOf

\* An import leaves the table with the columns of its run's body format.
LEMMA ImportMakes ==
    ASSUME Import, format \in {"text", "json_flatten"}, Range(saved) \subseteq Range(saved')
    PROVE  TableIsMade'
BY DEF Import, TableColumns, TableIsMade

\* The invariant is inductive.
LEMMA FlattenStep ==
    ASSUME FlattenInv, [Next]_vars
    PROVE  FlattenInv'
<1>1. CASE UNCHANGED vars
  BY <1>1 DEF FlattenInv, RegistryFollows, BatchIsRegistered, TableFollows, TableIsMade, vars, durable, table, job,
              Carried
<1>2. CASE StartRun
  <2>1. /\ phase = "idle" /\ phase' = "ready" /\ format' \in {"text", "json_flatten"}
        /\ UNCHANGED <<saved, columns, made, cells, promised, batch, out>>
        /\ Carried' = Carried /\ batch = <<>> /\ out = Nothing
        /\ registry' = IF format' = "json_flatten" THEN Carried ELSE NoRegistry
    BY <1>2 DEF StartRun, table, Formats, Carried, FlattenInv, RegistryFollows, NoRegistry
  <2>2. RegistryOK(registry') /\ registry'.provisional = Empty
    BY <2>1, EmptyRegistry DEF FlattenInv, RegistryFollows, Carried, NoRegistry
  <2>3. Grows(Carried, Carried)
    BY DEF Grows
  <2>4. RegistryFollows'
    BY <2>1, <2>2, <2>3 DEF FlattenInv, RegistryFollows
  <2>5. BatchIsRegistered'
    BY <2>1 DEF BatchIsRegistered
  <2>6. TableFollows'
    BY <2>1 DEF FlattenInv, TableFollows, TableIsMade, Nothing
  <2>. QED BY <2>4, <2>5, <2>6 DEF FlattenInv
<1>3. ASSUME NEW m \in Messages, ToRow(m) PROVE FlattenInv'
  <2>1. CASE format = "json_flatten"
    <3>1. /\ RegistryFollows' /\ TableFollows'
          /\ Registered(registry) \cup ToSet(m.fields) \subseteq Registered(registry')
      BY <1>3, <2>1, RegisterStep DEF ToRow
    <3>2. batch \in Seq(Messages) /\ batch' = Append(batch, m) /\ format' = format
      BY <1>3 DEF ToRow, FlattenInv, BatchIsRegistered, job
    <3>3. batch' \in Seq(Messages)
      BY <3>2
    <3>4. ASSUME NEW i \in 1..Len(batch')
          PROVE  ToSet(batch'[i].fields) \subseteq Registered(registry')
      <4>1. CASE i = Len(batch) + 1
        BY <3>1, <3>2, <4>1
      <4>2. CASE i \in 1..Len(batch)
        BY <2>1, <3>1, <3>2, <4>2 DEF FlattenInv, BatchIsRegistered
      <4>. QED BY <3>2, <3>4, <4>1, <4>2
    <3>. QED BY <3>1, <3>3, <3>4 DEF FlattenInv, BatchIsRegistered
  <2>2. CASE format # "json_flatten"
    <3>1. /\ UNCHANGED <<saved, columns, made, cells, promised, format, registry, out>>
          /\ batch' = Append(batch, m) /\ phase' = "batch" /\ phase # "idle"
      BY <1>3, <2>2 DEF ToRow, Receives, durable, table, job
    <3>2. batch' \in Seq(Messages)
      BY <3>1 DEF FlattenInv, BatchIsRegistered
    <3>. QED BY <2>2, <3>1, <3>2 DEF FlattenInv, RegistryFollows, BatchIsRegistered,
                                    TableFollows, TableIsMade, Carried
  <2>. QED BY <2>1, <2>2
<1>4. ASSUME NEW m \in Messages, ToRowFails(m) PROVE FlattenInv'
  BY <1>4 DEF ToRowFails, Receives, durable, table, job, FlattenInv, RegistryFollows,
              BatchIsRegistered, TableFollows, TableIsMade, Carried
<1>5. ASSUME NEW m \in Messages, ToRowTooLarge(m) PROVE FlattenInv'
  <2>1. /\ RegistryFollows' /\ TableFollows'
        /\ Registered(registry) \cup ToSet(m.fields) \subseteq Registered(registry')
    BY <1>5, RegisterStep DEF ToRowTooLarge
  <2>. QED BY <1>5, <2>1 DEF ToRowTooLarge, FlattenInv, BatchIsRegistered, job
<1>6. CASE WriteRows
  <2>1. UNCHANGED <<saved, columns, made, cells, promised, format, registry, batch>>
        /\ phase = "batch" /\ phase' = "written" /\ Carried' = Carried
    BY <1>6 DEF WriteRows, durable, table, job, Carried
  <2>2. CASE format = "text"
    BY <1>6, <2>1, <2>2 DEF WriteRows, FlattenInv, RegistryFollows, BatchIsRegistered, TableFollows, TableIsMade
  <2>3. CASE format # "text"
    <3>. DEFINE rows == {Split(registry, batch[i]) : i \in DOMAIN batch}
    <3>1. \A row \in rows : row.cells \subseteq Graph(saved)
                            /\ row.unmapped \subseteq NamesOf(registry)
      <4>. SUFFICES ASSUME NEW i \in DOMAIN batch
                    PROVE  /\ Split(registry, batch[i]).cells \subseteq Graph(saved)
                           /\ Split(registry, batch[i]).unmapped \subseteq NamesOf(registry)
        OBVIOUS
      <4>1. format = "json_flatten" /\ i \in 1..Len(batch) /\ batch[i] \in Messages
        BY <2>3 DEF FlattenInv, RegistryFollows, BatchIsRegistered
      <4>2. ToSet(batch[i].fields) \subseteq Registered(registry)
        BY <4>1 DEF FlattenInv, BatchIsRegistered
      <4>. QED BY <2>1, <4>1, <4>2, SplitFollows
    <3>2. /\ out'.cells = out.cells \cup UNION {row.cells : row \in rows}
          /\ out'.unmapped = out.unmapped \cup UNION {row.unmapped : row \in rows}
      BY <1>6, <2>3 DEF WriteRows
    <3>. HIDE DEF rows
    <3>3. TableFollows'
      BY <2>1, <3>1, <3>2 DEF FlattenInv, TableFollows, TableIsMade
    <3>. QED BY <2>1, <3>3 DEF FlattenInv, RegistryFollows, BatchIsRegistered
  <2>. QED BY <2>2, <2>3
<1>7. CASE Settle
  <2>1. UNCHANGED <<saved, columns, made, cells, promised, format, registry, out>>
        /\ batch' = <<>> /\ phase # "idle" /\ phase' \in {"failed", "ready"}
        /\ Carried' = Carried
    BY <1>7 DEF Settle, durable, table, job, Carried
  <2>2. phase' = "ready" => registry.provisional = Empty
    BY <1>7 DEF Settle, Raises, Overflowed
  <2>. QED BY <2>1, <2>2 DEF FlattenInv, RegistryFollows, BatchIsRegistered, TableFollows, TableIsMade
<1>8. CASE Finish
  BY <1>8 DEF Finish, durable, table, job, FlattenInv, RegistryFollows, BatchIsRegistered,
              TableFollows, TableIsMade, Carried
<1>9. ASSUME JobOver, RegistryOK(Carried'), TableIsMade',
             cells' \cup promised' \subseteq Graph(saved)'
      PROVE  FlattenInv'
  <2>1. /\ phase' = "idle" /\ format' = "text" /\ registry' = NoRegistry /\ batch' = <<>>
        /\ out' = Nothing /\ out'.cells = {} /\ out'.unmapped = {}
    BY <1>9 DEF JobOver, Nothing
  <2>2. RegistryFollows'
    BY <1>9, <2>1, EmptyRegistry DEF RegistryFollows
  <2>3. BatchIsRegistered' /\ TableFollows'
    BY <1>9, <2>1 DEF BatchIsRegistered, TableFollows, TableIsMade
  <2>. QED BY <2>2, <2>3 DEF FlattenInv
<1>10. CASE JobIsLost
  BY <1>9, <1>10 DEF JobIsLost, durable, table, Carried, FlattenInv, RegistryFollows, TableFollows, TableIsMade
<1>11. CASE JobLosesState
  <2>1. JobOver /\ UNCHANGED <<saved, promised>> /\ Carried' = Carried /\ Import
    BY <1>11 DEF JobLosesState, Carried
  <2>2. TableIsMade'
    BY <2>1, ImportMakes DEF FlattenInv, RegistryFollows
  <2>. QED BY <1>9, <2>1, <2>2 DEF Import, FlattenInv, RegistryFollows, TableFollows
<1>12. CASE JobSucceeds
  <2>1. /\ JobOver /\ saved' = Projected /\ Import /\ phase = "finished"
        /\ promised' = promised \cup out.unmapped
    BY <1>12 DEF JobSucceeds
  <2>2. CASE format = "text"
    <3>1. saved' = saved /\ Carried' = Carried
      BY <2>1, <2>2 DEF Projected, Carried
    <3>2. out.unmapped = {}
      BY <2>2, EmptyRegistry DEF FlattenInv, RegistryFollows, TableFollows, NamesOf
    <3>3. TableIsMade'
      BY <2>1, <3>1, ImportMakes DEF FlattenInv, RegistryFollows
    <3>. QED BY <1>9, <2>1, <3>1, <3>2, <3>3 DEF Import, FlattenInv, RegistryFollows, TableFollows
  <2>3. CASE format = "json_flatten"
    <3>1. Carried' = registry /\ saved' = registry.columns
      BY <2>1, <2>3 DEF Projected, Carried, FlattenInv, RegistryFollows, RegistryOK
    <3>2. Grows(Carried, registry)
      BY <2>1, <2>3 DEF FlattenInv, RegistryFollows
    <3>3. DOMAIN saved \subseteq DOMAIN saved' /\ \A p \in DOMAIN saved : saved'[p] = saved[p]
      BY <3>1, <3>2 DEF Grows, Carried, Registered, NameOf
    <3>4. Graph(saved) \subseteq Graph(saved') /\ Range(saved) \subseteq Range(saved')
      BY <3>3 DEF Graph, Range
    <3>5. NamesOf(registry) \subseteq Graph(saved')
      <4>1. DOMAIN registry.provisional = {}
        BY <2>1 DEF FlattenInv, RegistryFollows, Empty
      <4>. QED BY <3>1, <4>1 DEF NamesOf, Graph, Registered, NameOf
    <3>6. RegistryOK(Carried')
      BY <3>1 DEF FlattenInv, RegistryFollows
    <3>7. TableIsMade'
      BY <2>1, <3>4, ImportMakes DEF FlattenInv, RegistryFollows
    <3>8. cells' \cup promised' \subseteq Graph(saved)'
      BY <2>1, <3>4, <3>5 DEF Import, FlattenInv, TableFollows
    <3>. QED BY <1>9, <2>1, <3>6, <3>7, <3>8
  <2>. QED BY <2>2, <2>3 DEF FlattenInv, RegistryFollows
<1>13. CASE DropTable
  BY <1>13 DEF DropTable, job, FlattenInv, RegistryFollows, BatchIsRegistered, TableFollows, TableIsMade, Carried
<1>. QED
  BY <1>1, <1>2, <1>3, <1>4, <1>5, <1>6, <1>7, <1>8, <1>10, <1>11, <1>12, <1>13 DEF Next

\* The invariant holds throughout.
LEMMA FlattenInvariant == Spec => []FlattenInv
<1>1. Init => FlattenInv
  <2>. SUFFICES ASSUME Init PROVE FlattenInv
    OBVIOUS
  <2>1. Carried = NoRegistry /\ registry = NoRegistry /\ batch = <<>> /\ out = Nothing
    BY DEF Init, Carried, NoRegistry
  <2>2. RegistryFollows
    BY <2>1, EmptyRegistry DEF Init, RegistryFollows
  <2>3. BatchIsRegistered
    BY <2>1 DEF Init, BatchIsRegistered
  <2>4. TableFollows
    BY <2>1 DEF Init, TableFollows, TableIsMade, Nothing
  <2>. QED BY <2>2, <2>3, <2>4 DEF FlattenInv
<1>2. FlattenInv /\ [Next]_vars => FlattenInv'
  BY FlattenStep
<1>. QED BY <1>1, <1>2, PTL DEF Spec

\* No field of a row is overwritten by another, however bodies clash, in every
\* run and over the cap: the names in use are pairwise different.
THEOREM NamesNeverClash == Spec => []OneFieldPerName
<1>1. FlattenInv => OneFieldPerName
  BY DEF FlattenInv, RegistryFollows, RegistryOK, NamesApart, Registered, OneFieldPerName
<1>. QED BY <1>1, FlattenInvariant, PTL

\* A column of the destination table holds one path's values for good: the
\* state never renames a path, and failed runs only write saved columns.
THEOREM ColumnsAreStable == Spec => []ColumnKeepsItsPath
<1>1. FlattenInv => ColumnKeepsItsPath
  <2>. SUFFICES ASSUME FlattenInv, NEW x \in Graph(saved), NEW y \in Graph(saved), x[1] = y[1]
                PROVE  x[2] = y[2]
    BY DEF FlattenInv, TableFollows, ColumnKeepsItsPath
  <2>1. x[2] \in DOMAIN saved /\ saved[x[2]] = x[1] /\ y[2] \in DOMAIN saved /\ saved[y[2]] = y[1]
    BY DEF Graph
  <2>2. NamesApart(Carried)
    BY DEF FlattenInv, RegistryFollows, RegistryOK
  <2>. QED BY <2>1, <2>2 DEF NamesApart, Carried, Registered, NameOf
<1>. QED BY <1>1, FlattenInvariant, PTL

\* A run of the body format that made the table never has its import rejected for
\* a column the table has: no run, lost state or change of format in between makes
\* a run miss one.  And the state never brings more columns than the cap allows.
THEOREM ImportsAlwaysFit == Spec => []ImportFits
<1>1. FlattenInv => ImportFits
  <2>. SUFFICES ASSUME FlattenInv PROVE ImportFits
    OBVIOUS
  <2>1. made \in {"none", format} => columns \subseteq TableColumns
    BY DEF FlattenInv, RegistryFollows, TableFollows, TableIsMade, TableColumns
  <2>2. Cardinality(DOMAIN saved) <= MaxColumns
    BY DEF FlattenInv, RegistryFollows, RegistryOK, Carried
  <2>. QED BY <2>1, <2>2 DEF ImportFits
<1>. QED BY <1>1, FlattenInvariant, PTL

\* What a successful run left in body_unmapped under a name has that name as its
\* column ever after: a run that overflowed the cap never succeeds.
THEOREM UnmappedIsKept == Spec => []UnmappedBecomesColumn
<1>1. FlattenInv => UnmappedBecomesColumn
  BY DEF FlattenInv, TableFollows, Graph, UnmappedBecomesColumn
<1>. QED BY <1>1, FlattenInvariant, PTL
=============================================================================
