-------------------------- MODULE ObjectTableProofs --------------------------
(***************************************************************************)
(* Proofs about ObjectTable, for any number of threads, entries, objects   *)
(* and names: the table and the handle lists of the objects name each      *)
(* other, and an object has exactly the references of its entries and of   *)
(* the calls that work on it.                                              *)
(*                                                                         *)
(* Neither is inductive alone.  Inv adds what the code relies on without a *)
(* check: a call that has looked an object up keeps it, handles_[0] of an  *)
(* object that was created reads a handle, and so does its guest header.   *)
(*                                                                         *)
(* Of a title whose calls do not overlap: what it opened and referenced    *)
(* stays.  SerialInv adds to Inv what a count has to cover.                *)
(***************************************************************************)
EXTENDS ObjectTable, QueueLemmas, FiniteSetTheorems

Table ==
  /\ created \in 0..MaxObjects
  /\ object \in [Handles -> (1..created) \cup {None}]
  /\ count \in [Handles -> Int]
  /\ handles \in [Objects -> Seq(Handles)]
  /\ cell \in [Objects -> Handles \cup {None}]
  /\ \A o \in 1..created : cell[o] \in Handles
  /\ names \in [Names -> Handles \cup {None}]
  /\ HandlesMatchTable

Headers ==
  /\ header \in [Objects -> Handles \cup {None}]
  /\ \A o \in 1..created : header[o] \in Handles
  /\ name \in [Objects -> Names \cup {None}]

CallType == [at : Places, object : Objects \cup {None}, handle : Handles \cup {None},
             name : Names \cup {None}, source : Handles \cup {None}]

\* What the place of a call says of what it holds.
CallOK(c, n) ==
  /\ c.object \in (1..n) \cup {None}
  /\ c.at \in {"idle", "lookup", "create", "close"} <=> c.object = None
  /\ c.at \in {"lookup", "releasing", "retaining", "referring", "dereferring"} => c.handle \in Handles
  /\ c.at = "close" => c.source \in Handles
  /\ c.at = "name" => c.name \in Names

Calls ==
  /\ call \in [Threads -> CallType]
  /\ \A t \in Threads : CallOK(call[t], created)

Title ==
  /\ open \in [Threads -> SUBSET (Handles \X (1..created))]
  /\ pointers \in [Threads -> SUBSET (1..created)]
  /\ mode \in Modes

Counted ==
  /\ refs \in [Objects -> Nat]
  /\ RefsExact

Inv == Table /\ Headers /\ Calls /\ Title /\ Counted

-----------------------------------------------------------------------------
(* Counting.                                                               *)

Using(S, f, o) == {s \in S : f[s].object = o}

LEMMA UsersMoved ==
  ASSUME NEW S, IsFiniteSet(S), NEW f, NEW g, NEW t \in S, NEW o,
         \A s \in S \ {t} : g[s].object = f[s].object
  PROVE  /\ Cardinality(Using(S, f, o)) \in Nat
         /\ Cardinality(Using(S, g, o)) \in Nat
         /\ Cardinality(Using(S, g, o))
              = Cardinality(Using(S, f, o))
                + (IF g[t].object = o THEN 1 ELSE 0) - (IF f[t].object = o THEN 1 ELSE 0)
<1> DEFINE F == {s \in S : f[s].object = o}
           G == {s \in S : g[s].object = o}
           R == {s \in S \ {t} : f[s].object = o}
<1>1. IsFiniteSet(F) /\ IsFiniteSet(G) /\ IsFiniteSet(R)
  BY FS_Subset
<1>2. Cardinality(F) \in Nat /\ Cardinality(G) \in Nat /\ Cardinality(R) \in Nat
  BY <1>1, FS_CardinalityType
<1>3. F = (IF f[t].object = o THEN R \cup {t} ELSE R) /\ G = (IF g[t].object = o THEN R \cup {t} ELSE R)
  OBVIOUS
<1>4. t \notin R
  OBVIOUS
<1>5. Cardinality(R \cup {t}) = Cardinality(R) + 1
  BY <1>1, <1>4, FS_AddElement
<1> HIDE DEF F, G, R
<1>6. Cardinality(F) = Cardinality(R) + (IF f[t].object = o THEN 1 ELSE 0)
  BY <1>2, <1>3, <1>5
<1>7. Cardinality(G) = Cardinality(R) + (IF g[t].object = o THEN 1 ELSE 0)
  BY <1>2, <1>3, <1>5
<1>8. Cardinality(G) = Cardinality(F) + (IF g[t].object = o THEN 1 ELSE 0) - (IF f[t].object = o THEN 1 ELSE 0)
  BY <1>2, <1>6, <1>7
<1> QED
  BY <1>2, <1>8 DEF F, G, Using

LEMMA Balance ==
  ASSUME NEW a \in Nat, NEW b \in Nat, NEW c \in Nat, NEW d \in Nat, NEW x \in Nat, NEW y \in Nat,
         d = b + x - y, NEW r, r = a + b + c - a + x - y
  PROVE  r = c + d /\ r \in Nat
  OBVIOUS

\* References follow the entries and the call of the thread that moves.
LEMMA CountedStep ==
  ASSUME Counted, NEW t \in Threads,
         \A s \in Threads \ {t} : call'[s].object = call[s].object,
         \A o \in Objects : Len(handles[o]) \in Nat /\ Len(handles'[o]) \in Nat,
         refs' \in [Objects -> Int],
         \A o \in Objects :
           refs'[o] = refs[o] + Len(handles'[o]) - Len(handles[o])
                      + (IF call'[t].object = o THEN 1 ELSE 0) - (IF call[t].object = o THEN 1 ELSE 0)
  PROVE  Counted'
<1>1. SUFFICES ASSUME NEW o \in Objects
               PROVE  /\ refs'[o] \in Nat
                      /\ refs'[o] = Len(handles'[o]) + Cardinality(Users(o)')
  BY Zenon DEF Counted, RefsExact
<1>2. /\ Cardinality(Users(o)) \in Nat
      /\ Cardinality(Users(o)') \in Nat
      /\ Cardinality(Users(o)') = Cardinality(Users(o)) + (IF call'[t].object = o THEN 1 ELSE 0)
                                    - (IF call[t].object = o THEN 1 ELSE 0)
  <2>1. IsFiniteSet(Threads)
    BY ObjectTableAssumption
  <2>2. Users(o) = Using(Threads, call, o) /\ Users(o)' = Using(Threads, call', o)
    BY DEF Users, Using
  <2> QED
    BY <2>1, <2>2, UsersMoved
<1>3. refs[o] = Len(handles[o]) + Cardinality(Users(o)) /\ refs[o] \in Nat
  BY DEF Counted, RefsExact
<1>4. /\ Len(handles[o]) \in Nat
      /\ Len(handles'[o]) \in Nat
      /\ refs'[o] = refs[o] + Len(handles'[o]) - Len(handles[o])
                    + (IF call'[t].object = o THEN 1 ELSE 0) - (IF call[t].object = o THEN 1 ELSE 0)
  OBVIOUS
<1> DEFINE before == Cardinality(Users(o))
           after  == Cardinality(Users(o)')
           came   == IF call'[t].object = o THEN 1 ELSE 0
           went   == IF call[t].object = o THEN 1 ELSE 0
           long   == Len(handles[o])
           longer == Len(handles'[o])
<1>5. came \in Nat /\ went \in Nat
  OBVIOUS
<1>6. before \in Nat /\ after \in Nat /\ after = before + came - went
  BY <1>2, Zenon
<1>7. refs'[o] = long + before + longer - long + came - went /\ long \in Nat /\ longer \in Nat
  BY <1>3, <1>4, Zenon
<1> HIDE DEF before, after, came, went, long, longer
<1>8. refs'[o] = longer + after /\ refs'[o] \in Nat
  BY <1>5, <1>6, <1>7, Balance
<1> QED
  BY <1>8, Zenon DEF after, longer

-----------------------------------------------------------------------------
(* The operations of the table.                                            *)

LEMMA AddHandleKeepsTable ==
  ASSUME Table, NEW h \in Handles, NEW o \in Objects, NEW n \in Nat, AddHandle(h, o, n),
         \/ created' = created /\ o \in 1..created
         \/ created' = created + 1 /\ o = created + 1,
         created' \in 0..MaxObjects, names' = names, refs \in [Objects -> Nat]
  PROVE  /\ Table'
         /\ refs' \in [Objects -> Int]
         /\ \A p \in Objects : /\ Len(handles[p]) \in Nat /\ Len(handles'[p]) \in Nat
                               /\ p = o => /\ Len(handles'[p]) = Len(handles[p]) + 1
                                           /\ refs'[p] = refs[p] + n
                               /\ p # o => handles'[p] = handles[p] /\ refs'[p] = refs[p]
<1> USE ObjectTableAssumption
<1>1. /\ handles[o] \in Seq(Handles)
      /\ ToSet(handles[o]) = {g \in Handles : object[g] = o}
      /\ IsInjective(handles[o])
  BY DEF Table, HandlesMatchTable
<1>2. h \notin ToSet(handles[o])
  BY <1>1 DEF AddHandle, Objects
<1>3. /\ Append(handles[o], h) \in Seq(Handles)
      /\ ToSet(Append(handles[o], h)) = ToSet(handles[o]) \cup {h}
      /\ IsInjective(Append(handles[o], h))
      /\ Len(Append(handles[o], h)) = Len(handles[o]) + 1
  BY <1>1, <1>2, AppendQueue, AppendProperties
<1>4. object' = [object EXCEPT ![h] = o] /\ handles' = [handles EXCEPT ![o] = Append(handles[o], h)]
  BY DEF AddHandle
<1>5. object' \in [Handles -> (1..created') \cup {None}] /\ handles' \in [Objects -> Seq(Handles)]
  BY <1>3, <1>4 DEF Table, Objects
<1>6. HandlesMatchTable'
  <2>1. SUFFICES ASSUME NEW p \in Objects
                 PROVE  IsInjective(handles'[p]) /\ ToSet(handles'[p]) = {g \in Handles : object'[g] = p}
    BY Zenon DEF HandlesMatchTable
  <2>2. CASE p = o
    BY <1>1, <1>3, <1>4, <2>2 DEF Table
  <2>3. CASE p # o
    <3>1. handles'[p] = handles[p]
      BY <1>4, <2>3 DEF Table
    <3>2. {g \in Handles : object'[g] = p} = {g \in Handles : object[g] = p}
      BY <1>4, <2>3, o # None, p # None DEF Table, AddHandle, Objects
    <3> QED
      BY <3>1, <3>2 DEF Table, HandlesMatchTable
  <2> QED
    BY <2>2, <2>3
<1>7. cell' \in [Objects -> Handles \cup {None}] /\ \A p \in 1..created' : cell'[p] \in Handles
  <2>1. cell' = [cell EXCEPT ![o] = IF handles[o] = <<>> THEN h ELSE cell[o]]
    BY DEF AddHandle
  <2>2. created' = created + 1 /\ o = created + 1 => handles[o] = <<>>
    <3>1. SUFFICES ASSUME o = created + 1
                   PROVE  handles[o] = <<>>
      OBVIOUS
    <3>2. ToSet(handles[o]) = {}
      <4>1. \A g \in Handles : object[g] # o
        <5>1. SUFFICES ASSUME NEW g \in Handles
                       PROVE  object[g] # o
          OBVIOUS
        <5>2. object[g] \in (1..created) \cup {None} /\ created \in Nat /\ o \in Nat /\ None # o
          BY DEF Table, Objects
        <5> QED
          BY <3>1, <5>2
      <4> QED
        BY <1>1, <4>1
    <3>3. \A i \in 1..Len(handles[o]) : handles[o][i] \in ToSet(handles[o])
      BY <1>1, LenProperties DEF ToSet
    <3> QED
      BY <1>1, <3>2, <3>3, LenProperties, EmptySeq
  <2>3. cell \in [Objects -> Handles \cup {None}] /\ created \in Nat /\ \A p \in 1..created : cell[p] \in Handles
    BY DEF Table
  <2>4. SUFFICES ASSUME NEW p \in 1..created'
                 PROVE  cell'[p] \in Handles
    BY <2>1, <2>3
  <2>5. p \in Objects
    BY DEF Objects
  <2>6. CASE p = o
    BY <2>1, <2>2, <2>3, <2>5, <2>6
  <2>7. CASE p # o
    <3>1. p \in 1..created
      BY <2>3, <2>7
    <3> QED
      BY <2>1, <2>3, <2>5, <2>7, <3>1
  <2> QED
    BY <2>6, <2>7
<1>8. count' \in [Handles -> Int]
  BY DEF Table, AddHandle
<1>9. refs' = [refs EXCEPT ![o] = refs[o] + n]
  BY DEF AddHandle
<1>10. \A p \in Objects : Len(handles[p]) \in Nat /\ Len(handles'[p]) \in Nat
  BY <1>5, LenProperties DEF Table
<1>11. \A p \in Objects : /\ p = o => Len(handles'[p]) = Len(handles[p]) + 1 /\ refs'[p] = refs[p] + n
                          /\ p # o => handles'[p] = handles[p] /\ refs'[p] = refs[p]
  BY <1>3, <1>4, <1>9 DEF Table
<1>12. Table'
  <2>1. names' \in [Names -> Handles \cup {None}]
    BY DEF Table
  <2> QED
    BY <1>5, <1>6, <1>7, <1>8, <2>1, Zenon DEF Table
<1>13. refs' \in [Objects -> Int]
  BY <1>9
<1> QED
  BY <1>10, <1>11, <1>12, <1>13, Zenon

LEMMA RemoveHandleKeepsTable ==
  ASSUME Table, NEW h \in Handles, object[h] # None, RemoveHandle(h), created' = created,
         refs \in [Objects -> Nat]
  PROVE  /\ Table'
         /\ refs' \in [Objects -> Int]
         /\ \A p \in Objects : /\ Len(handles[p]) \in Nat /\ Len(handles'[p]) \in Nat
                               /\ refs'[p] = refs[p] + Len(handles'[p]) - Len(handles[p])
<1> USE ObjectTableAssumption
<1> DEFINE o == object[h]
           rest == RemoveFirst(handles[o], h)
<1>0. o \in Objects /\ o \in 1..created /\ o # None
  BY DEF Table, Objects
<1>1. /\ handles[o] \in Seq(Handles)
      /\ ToSet(handles[o]) = {g \in Handles : object[g] = o}
      /\ IsInjective(handles[o])
  BY <1>0 DEF Table, HandlesMatchTable
<1>2. h \in ToSet(handles[o])
  BY <1>1
<1>3. rest \in Seq(Handles) /\ ToSet(rest) = ToSet(handles[o]) \ {h} /\ IsInjective(rest)
  BY <1>1, RemoveFirstQueue
<1>4. Len(rest) = Len(handles[o]) - 1
  <2>1. \E i \in 1..Len(handles[o]) : handles[o][i] = h
    BY <1>1, <1>2, LenProperties DEF ToSet
  <2>2. PICK k \in 1..Len(handles[o]) : rest = RemoveAt(handles[o], k)
    BY <1>1, <2>1, RemoveFirstAt
  <2>3. Len(RemoveAt(handles[o], k)) = Len(handles[o]) - 1
    BY <1>1, <2>2, RemoveAtLength
  <2> QED
    BY <2>2, <2>3
<1>5. object' = [object EXCEPT ![h] = None] /\ handles' = [handles EXCEPT ![o] = rest]
  BY DEF RemoveHandle
<1> HIDE DEF rest
<1>6. object' \in [Handles -> (1..created') \cup {None}] /\ handles' \in [Objects -> Seq(Handles)]
  BY <1>0, <1>3, <1>5 DEF Table
<1>7. HandlesMatchTable'
  <2>1. SUFFICES ASSUME NEW p \in Objects
                 PROVE  IsInjective(handles'[p]) /\ ToSet(handles'[p]) = {g \in Handles : object'[g] = p}
    BY Zenon DEF HandlesMatchTable
  <2>2. p # None
    BY DEF Objects
  <2>3. CASE p = o
    <3>1. handles'[p] = rest
      BY <1>0, <1>5, <2>3 DEF Table
    <3>2. {g \in Handles : object'[g] = p} = {g \in Handles : object[g] = o} \ {h}
      BY <1>5, <2>2, <2>3 DEF Table
    <3> QED
      BY <1>1, <1>3, <3>1, <3>2
  <2>4. CASE p # o
    <3>1. handles'[p] = handles[p]
      BY <1>5, <2>4 DEF Table
    <3>2. {g \in Handles : object'[g] = p} = {g \in Handles : object[g] = p}
      BY <1>5, <2>2, <2>4 DEF Table
    <3> QED
      BY <3>1, <3>2 DEF Table, HandlesMatchTable
  <2> QED
    BY <2>3, <2>4
<1>8. cell' \in [Objects -> Handles \cup {None}] /\ \A p \in 1..created' : cell'[p] \in Handles
  <2>1. cell' = [cell EXCEPT ![o] = IF rest = <<>> THEN cell[o] ELSE Head(rest)]
    BY DEF RemoveHandle, rest
  <2>2. rest # <<>> => Head(rest) \in Handles
    BY <1>3, HeadTailProperties
  <2> QED
    BY <1>0, <2>1, <2>2 DEF Table
<1>9. count' \in [Handles -> Int] /\ names' \in [Names -> Handles \cup {None}]
  BY DEF Table, RemoveHandle
<1>10. refs' = [refs EXCEPT ![o] = refs[o] - 1]
  BY DEF RemoveHandle, Release
<1>11. \A p \in Objects : Len(handles[p]) \in Nat /\ Len(handles'[p]) \in Nat
  BY <1>6, LenProperties DEF Table
<1>12. \A p \in Objects : refs'[p] = refs[p] + Len(handles'[p]) - Len(handles[p])
  <2>1. SUFFICES ASSUME NEW p \in Objects
                 PROVE  refs'[p] = refs[p] + Len(handles'[p]) - Len(handles[p])
    OBVIOUS
  <2>2. CASE p = o
    BY <1>0, <1>4, <1>5, <1>10, <1>11, <2>2 DEF Table
  <2>3. CASE p # o
    BY <1>5, <1>10, <1>11, <2>3 DEF Table
  <2> QED
    BY <2>2, <2>3
<1>13. Table'
  <2>1. created' \in 0..MaxObjects
    BY DEF Table
  <2> QED
    BY <1>6, <1>7, <1>8, <1>9, <2>1, Zenon DEF Table
<1>14. refs' \in [Objects -> Int]
  BY <1>0, <1>10
<1> QED
  BY <1>11, <1>12, <1>13, <1>14, Zenon

LEMMA ReleaseHandleKeepsTable ==
  ASSUME Table, NEW h \in Handles, ReleaseHandle(h), created' = created, refs \in [Objects -> Nat]
  PROVE  /\ Table'
         /\ refs' \in [Objects -> Int]
         /\ \A p \in Objects : /\ Len(handles[p]) \in Nat /\ Len(handles'[p]) \in Nat
                               /\ refs'[p] = refs[p] + Len(handles'[p]) - Len(handles[p])
<1>1. CASE count[h] = 1 /\ object[h] # None
  BY <1>1, RemoveHandleKeepsTable, Zenon DEF ReleaseHandle
<1>2. CASE ~(count[h] = 1 /\ object[h] # None)
  <2>1. count' = [count EXCEPT ![h] = @ - 1] /\ UNCHANGED <<object, handles, cell, names, refs>>
    BY <1>2, Zenon DEF ReleaseHandle
  <2>2. Table'
    BY <2>1 DEF Table, HandlesMatchTable
  <2>3. \A p \in Objects : Len(handles[p]) \in Nat
    BY LenProperties DEF Table
  <2> QED
    BY <2>1, <2>2, <2>3
<1> QED
  BY <1>1, <1>2

LEMMA TableUnchanged ==
  ASSUME Table, created' = created, UNCHANGED <<object, handles, cell, names>>,
         count' \in [Handles -> Int], refs \in [Objects -> Nat]
  PROVE  /\ Table'
         /\ \A p \in Objects : Len(handles[p]) \in Nat /\ Len(handles'[p]) = Len(handles[p])
<1>1. HandlesMatchTable'
  BY DEF Table, HandlesMatchTable
<1>2. Table'
  BY <1>1 DEF Table
<1>3. \A p \in Objects : Len(handles[p]) \in Nat
  BY LenProperties DEF Table
<1> QED
  BY <1>2, <1>3

LEMMA RetainByNameCounts ==
  ASSUME Table, NEW n \in Names, names[n] # None, RetainByName(n)
  PROVE  count' \in [Handles -> Int]
<1>1. names[n] \in Handles
  BY DEF Table
<1>2. CASE object[names[n]] = None
  BY <1>2 DEF Table, RetainByName
<1>3. CASE object[names[n]] # None
  <2>1. object[names[n]] \in 1..created
    BY <1>1, <1>3 DEF Table
  <2>2. cell[object[names[n]]] \in Handles
    BY <2>1 DEF Table
  <2> QED
    BY <1>3, <2>2 DEF Table, RetainByName, RetainHandle
<1> QED
  BY <1>2, <1>3

-----------------------------------------------------------------------------
(* A step of one call keeps the invariant if it keeps the table, moves the *)
(* call to a place that holds what it should, and balances the references. *)

LEMMA MoveStep ==
  ASSUME Inv, NEW t \in Threads, NEW c \in CallType, Becomes(t, c),
         created' \in {created, created + 1}, CallOK(c, created'),
         Table', Headers', Title',
         refs' \in [Objects -> Int],
         \A o \in Objects : Len(handles[o]) \in Nat /\ Len(handles'[o]) \in Nat,
         \A o \in Objects :
           refs'[o] = refs[o] + Len(handles'[o]) - Len(handles[o])
                      + (IF c.object = o THEN 1 ELSE 0) - (IF call[t].object = o THEN 1 ELSE 0)
  PROVE  Inv'
<1>1. /\ call' \in [Threads -> CallType]
      /\ \A s \in Threads \ {t} : call'[s] = call[s]
      /\ call'[t] = c
  BY DEF Inv, Calls, Becomes
<1>2. Calls'
  <2>1. SUFFICES ASSUME NEW s \in Threads \ {t}
                 PROVE  CallOK(call'[s], created')
    BY <1>1, Zenon DEF Calls
  <2>2. CallOK(call[s], created) /\ call'[s] = call[s] /\ created \in Nat
    BY <1>1 DEF Inv, Calls, Table
  <2>3. (1..created) \subseteq (1..created')
    BY <2>2
  <2>4. call[s].object \in (1..created') \cup {None}
    BY <2>2, <2>3 DEF CallOK
  <2> QED
    BY <2>2, <2>4 DEF CallOK
<1>3. Counted'
  <2>1. Counted /\ \A s \in Threads \ {t} : call'[s].object = call[s].object
    BY <1>1 DEF Inv
  <2> QED
    BY <1>1, <2>1, CountedStep, Zenon
<1> QED
  BY <1>2, <1>3, Zenon DEF Inv

LEMMA Unmoved ==
  ASSUME Inv, NEW t \in Threads, UNCHANGED call
  PROVE  call[t] \in CallType /\ Becomes(t, call[t]) /\ CallOK(call[t], created)
BY DEF Inv, Calls, Becomes

LEMMA HeadersUnchanged ==
  ASSUME Headers, UNCHANGED <<created, header, name>>
  PROVE  Headers'
BY DEF Headers

LEMMA TitleUnchanged ==
  ASSUME Title, UNCHANGED <<created, open, pointers, mode>>
  PROVE  Title'
BY DEF Title

\* Steps that change the table: the call keeps its object.
LEMMA TableStep ==
  ASSUME Inv, NEW t \in Threads, NEW c \in CallType, Becomes(t, c), CallOK(c, created),
         c.object = call[t].object, UNCHANGED <<created, header, name>>,
         Table', Title', refs' \in [Objects -> Int],
         \A o \in Objects : /\ Len(handles[o]) \in Nat /\ Len(handles'[o]) \in Nat
                            /\ refs'[o] = refs[o] + Len(handles'[o]) - Len(handles[o])
  PROVE  Inv'
<1>1. Headers'
  BY HeadersUnchanged DEF Inv
<1>2. \A o \in Objects :
        refs'[o] = refs[o] + Len(handles'[o]) - Len(handles[o])
                   + (IF c.object = o THEN 1 ELSE 0) - (IF call[t].object = o THEN 1 ELSE 0)
  <2>1. \A x \in Int : x = x + 1 - 1 /\ x = x + 0 - 0
    OBVIOUS
  <2>2. \A o \in Objects : refs'[o] \in Int
    OBVIOUS
  <2> QED
    BY <2>1, <2>2
<1> QED
  BY <1>1, <1>2, MoveStep

\* Steps that change a handle count at most.
LEMMA QuietStep ==
  ASSUME Inv, NEW t \in Threads, NEW c \in CallType, Becomes(t, c), CallOK(c, created),
         c.object = call[t].object, count' \in [Handles -> Int],
         UNCHANGED <<object, created, refs, handles, cell, header, name, names>>, Title'
  PROVE  Inv'
<1>1. Table' /\ \A o \in Objects : Len(handles[o]) \in Nat /\ Len(handles'[o]) = Len(handles[o])
  BY TableUnchanged DEF Inv, Counted
<1>2. refs' \in [Objects -> Int] /\ \A o \in Objects : refs'[o] = refs[o] /\ refs[o] \in Nat
  BY DEF Inv, Counted
<1> QED
  BY <1>1, <1>2, TableStep

\* LookupObject takes a reference ...
LEMMA LookupStep ==
  ASSUME Inv, NEW t \in Threads, NEW h \in Handles, NEW p \in {"release", "add", "refer", "derefer"},
         NEW source \in Handles \cup {None}, LookupObject(t, h, p, source), call[t].object = None,
         UNCHANGED <<object, count, created, handles, cell, header, name, names>>, Title'
  PROVE  Inv'
<1> USE ObjectTableAssumption
<1> DEFINE c == [Idle EXCEPT !.at = p, !.object = object[h], !.source = source]
<1>1. object[h] \in 1..created /\ object[h] \in Objects /\ Becomes(t, c)
  BY DEF Inv, Table, LookupObject, Objects
<1>2. c \in CallType /\ c.at = p /\ c.object = object[h]
  BY <1>1 DEF Idle, CallType, Places
<1> HIDE DEF c
<1>3. CallOK(c, created')
  <2>1. object[h] # None /\ created' = created
    BY <1>1 DEF Objects
  <2> QED
    BY <1>1, <1>2, <2>1 DEF CallOK
<1>4. Table' /\ \A o \in Objects : Len(handles[o]) \in Nat /\ Len(handles'[o]) = Len(handles[o])
  <2>1. count' \in [Handles -> Int] /\ refs \in [Objects -> Nat] /\ Table
    BY DEF Inv, Table, Counted
  <2> QED
    BY <2>1, TableUnchanged
<1>5. Headers'
  BY HeadersUnchanged DEF Inv
<1>6. refs \in [Objects -> Nat] /\ refs' = [refs EXCEPT ![object[h]] = refs[object[h]] + 1]
  BY DEF Inv, Counted, LookupObject, Retain
<1>7. refs' \in [Objects -> Int]
  BY <1>1, <1>6
<1>8. \A o \in Objects :
        refs'[o] = refs[o] + Len(handles'[o]) - Len(handles[o])
                   + (IF c.object = o THEN 1 ELSE 0) - (IF call[t].object = o THEN 1 ELSE 0)
  <2>1. \A o \in Objects : o # None
    BY DEF Objects
  <2>2. SUFFICES ASSUME NEW o \in Objects
                 PROVE  refs'[o] = refs[o] + (IF c.object = o THEN 1 ELSE 0)
    BY <1>4, <1>6, <1>7, <2>1
  <2> QED
    BY <1>1, <1>2, <1>6
<1>9. \A o \in Objects : Len(handles[o]) \in Nat /\ Len(handles'[o]) \in Nat
  BY <1>4
<1>10. created' \in {created, created + 1}
  OBVIOUS
<1> QED
  BY <1>1, <1>2, <1>3, <1>4, <1>5, <1>7, <1>8, <1>9, <1>10, MoveStep

\* ... and the end of a call gives it back.
LEMMA DropStep ==
  ASSUME Inv, NEW t \in Threads, NEW c \in CallType, Becomes(t, c), CallOK(c, created),
         c.object = None, call[t].object # None, Release(call[t].object),
         UNCHANGED <<object, count, created, handles, cell, header, name, names>>, Title'
  PROVE  Inv'
<1> USE ObjectTableAssumption
<1>1. call[t].object \in Objects
  BY DEF Inv, Calls, CallType
<1>2. Table' /\ \A o \in Objects : Len(handles[o]) \in Nat /\ Len(handles'[o]) = Len(handles[o])
  <2>1. count' \in [Handles -> Int] /\ refs \in [Objects -> Nat] /\ Table
    BY DEF Inv, Table, Counted
  <2> QED
    BY <2>1, TableUnchanged
<1>3. Headers'
  BY HeadersUnchanged DEF Inv
<1>4. refs \in [Objects -> Nat] /\ refs' = [refs EXCEPT ![call[t].object] = refs[call[t].object] - 1]
  BY DEF Inv, Counted, Release
<1>5. refs' \in [Objects -> Int]
  BY <1>1, <1>4
<1>6. \A o \in Objects :
        refs'[o] = refs[o] + Len(handles'[o]) - Len(handles[o])
                   + (IF c.object = o THEN 1 ELSE 0) - (IF call[t].object = o THEN 1 ELSE 0)
  <2>1. \A o \in Objects : o # None
    BY DEF Objects
  <2>2. SUFFICES ASSUME NEW o \in Objects
                 PROVE  refs'[o] = refs[o] - (IF call[t].object = o THEN 1 ELSE 0)
    BY <1>2, <1>4, <1>5, <2>1
  <2> QED
    BY <1>1, <1>4
<1>7. \A o \in Objects : Len(handles[o]) \in Nat /\ Len(handles'[o]) \in Nat
  BY <1>2
<1> QED
  BY <1>2, <1>3, <1>5, <1>6, <1>7, MoveStep

-----------------------------------------------------------------------------
(* One step per action.                                                    *)

LEMMA IdleHoldsNothing ==
  ASSUME Inv, NEW t \in Threads
  PROVE  /\ call[t] \in CallType /\ CallOK(call[t], created)
         /\ call[t].at = "idle" => call[t].object = None
BY DEF Inv, Calls, CallOK

\* The record a step of a call leaves behind.
LEMMA NextCall ==
  ASSUME Inv, NEW t \in Threads, NEW p \in Places
  PROVE  LET c == [call[t] EXCEPT !.at = p, !.handle = None]
         IN  /\ c \in CallType /\ c.at = p /\ c.object = call[t].object
             /\ c.name = call[t].name /\ c.source = call[t].source
<1>1. call[t] \in CallType
  BY DEF Inv, Calls
<1> QED
  BY <1>1 DEF CallType

LEMMA IdleCall == Idle \in CallType /\ Idle.object = None /\ Idle.at = "idle"
BY DEF Idle, CallType, Places

LEMMA BeginStep ==
  ASSUME Inv, NEW t \in Threads, NEW c \in CallType, call[t].at = "idle", Becomes(t, c),
         c.object = None, c.at = "create" \/ (c.at = "lookup" /\ c.handle \in Handles),
         count' \in [Handles -> Int],
         UNCHANGED <<object, created, refs, handles, cell, header, name, names, open, pointers, mode>>
  PROVE  Inv'
<1>1. CallOK(c, created)
  BY DEF CallOK
<1>2. c.object = call[t].object
  BY IdleHoldsNothing
<1>3. Title'
  BY TitleUnchanged DEF Inv
<1> QED
  BY <1>1, <1>2, <1>3, QuietStep

LEMMA CreateUnnamedKeeps ==
  ASSUME Inv, NEW t \in Threads, CreateUnnamed(t)
  PROVE  Inv'
<1> DEFINE c == [call[t] EXCEPT !.at = "create", !.handle = None]
<1>1. "create" \in Places
  BY DEF Places
<1>2. Becomes(t, c) /\ call[t].at = "idle"
  BY DEF CreateUnnamed, Goto, Begin
<1>3. c \in CallType /\ c.at = "create" /\ c.object = call[t].object
  BY <1>1, NextCall
<1>4. c.object = None
  BY <1>2, <1>3, IdleHoldsNothing
<1>5. count' \in [Handles -> Int]
  BY DEF CreateUnnamed, tableVars, Inv, Table
<1> HIDE DEF c
<1> QED
  BY <1>2, <1>3, <1>4, <1>5, BeginStep DEF CreateUnnamed, tableVars, objectVars, titleVars

LEMMA CreateNewNameKeeps ==
  ASSUME Inv, NEW t \in Threads, NEW n \in Names, CreateNewName(t, n)
  PROVE  Inv'
<1> DEFINE c == [Idle EXCEPT !.at = "create", !.name = n]
<1>1. Becomes(t, c) /\ call[t].at = "idle"
  BY DEF CreateNewName, Begin
<1>2. c \in CallType /\ c.at = "create" /\ c.object = None
  BY DEF Idle, CallType, Places
<1>3. count' \in [Handles -> Int]
  BY DEF CreateNewName, tableVars, Inv, Table
<1> HIDE DEF c
<1> QED
  BY <1>1, <1>2, <1>3, BeginStep DEF CreateNewName, tableVars, objectVars, titleVars

LEMMA CreateKnownNameKeeps ==
  ASSUME Inv, NEW t \in Threads, NEW n \in Names, CreateKnownName(t, n)
  PROVE  Inv'
<1> DEFINE c == [Idle EXCEPT !.at = "lookup", !.name = n, !.handle = names[n]]
<1>1. Becomes(t, c) /\ call[t].at = "idle" /\ names[n] # None /\ RetainByName(n)
  BY DEF CreateKnownName, Begin
<1>2. Table
  BY DEF Inv
<1>3. names[n] \in Handles
  BY <1>1, <1>2 DEF Table
<1>4. c \in CallType /\ c.at = "lookup" /\ c.object = None /\ c.handle \in Handles
  BY <1>3 DEF Idle, CallType, Places
<1>5. count' \in [Handles -> Int]
  BY <1>1, <1>2, RetainByNameCounts
<1> HIDE DEF c
<1> QED
  BY <1>1, <1>4, <1>5, BeginStep DEF CreateKnownName, objectVars, titleVars

LEMMA LookUpNamedKeeps ==
  ASSUME Inv, NEW t \in Threads, LookUpNamed(t)
  PROVE  Inv'
<1>1. /\ call[t].at = "lookup" /\ call[t].object = None /\ call[t].handle \in Handles
      /\ UNCHANGED <<object, count, created, handles, cell, header, name, names, open, pointers, mode>>
  BY IdleHoldsNothing DEF LookUpNamed, At, CallOK, tableVars, titleVars
<1>2. Title'
  BY <1>1, TitleUnchanged DEF Inv
<1>3. CASE object[call[t].handle] = None
  <2> DEFINE c == [call[t] EXCEPT !.at = "create", !.handle = None]
  <2>1. Becomes(t, c) /\ UNCHANGED refs
    BY <1>3 DEF LookUpNamed, Goto
  <2>2. c \in CallType /\ c.at = "create" /\ c.object = call[t].object
    <3>1. "create" \in Places
      BY DEF Places
    <3> QED
      BY <3>1, NextCall
  <2> HIDE DEF c
  <2>3. CallOK(c, created)
    BY <1>1, <2>2 DEF CallOK
  <2>4. count' \in [Handles -> Int]
    BY <1>1 DEF Inv, Table
  <2> QED
    BY <1>1, <1>2, <2>1, <2>2, <2>3, <2>4, QuietStep
<1>4. CASE object[call[t].handle] # None
  <2>1. LookupObject(t, call[t].handle, "release", None)
    BY <1>4 DEF LookUpNamed
  <2> QED
    BY <1>1, <1>2, <2>1, LookupStep
<1> QED
  BY <1>3, <1>4

LEMMA ReadHandleKeeps ==
  ASSUME Inv, NEW t \in Threads, ReadHandle(t)
  PROVE  Inv'
<1> USE ObjectTableAssumption
<1>1. PICK step \in {<<"release", "releasing">>, <<"retain", "retaining">>,
                     <<"refer", "referring">>, <<"derefer", "dereferring">>} :
        /\ call[t].at = step[1]
        /\ Becomes(t, [call[t] EXCEPT !.at = step[2], !.handle = cell[call[t].object]])
  BY DEF ReadHandle, At
<1> DEFINE c == [call[t] EXCEPT !.at = step[2], !.handle = cell[call[t].object]]
<1>2. call[t].at \in {"release", "retain", "refer", "derefer"}
      /\ step[2] \in {"releasing", "retaining", "referring", "dereferring"}
  BY <1>1
<1>3. call[t] \in CallType /\ CallOK(call[t], created)
  BY IdleHoldsNothing
<1>4. call[t].object \in 1..created
  BY <1>2, <1>3 DEF CallOK
<1>5. cell[call[t].object] \in Handles
  BY <1>4 DEF Inv, Table
<1>6. c \in CallType /\ c.at = step[2] /\ c.object = call[t].object /\ c.handle \in Handles
  <2>1. step[2] \in Places
    BY <1>2 DEF Places
  <2> QED
    BY <1>3, <1>5, <2>1 DEF CallType
<1>7. Becomes(t, c)
  BY <1>1
<1> HIDE DEF c
<1>8. CallOK(c, created)
  <2>1. c.object # None
    BY <1>4, <1>6
  <2> QED
    BY <1>2, <1>4, <1>6, <2>1 DEF CallOK
<1>9. count' \in [Handles -> Int] /\ Title'
  BY TitleUnchanged DEF ReadHandle, Inv, Table, tableVars, objectVars, titleVars
<1> QED
  BY <1>6, <1>7, <1>8, <1>9, QuietStep DEF ReadHandle, tableVars, objectVars, titleVars

\* A call releases or retains the handle it read, and keeps its object.
LEMMA ReleaseStep ==
  ASSUME Inv, NEW t \in Threads, NEW p \in {"retain", "drop"}, Goto(t, p),
         call[t].at \in {"releasing", "dereferring"}, ReleaseHandle(call[t].handle),
         UNCHANGED <<created, header, name, open, pointers, mode>>
  PROVE  Inv'
<1> DEFINE c == [call[t] EXCEPT !.at = p, !.handle = None]
<1>1. Becomes(t, c)
  BY DEF Goto
<1>2. c \in CallType /\ c.at = p /\ c.object = call[t].object
  <2>1. p \in Places
    BY DEF Places
  <2> QED
    BY <2>1, NextCall
<1> HIDE DEF c
<1>3. CallOK(call[t], created)
  BY IdleHoldsNothing
<1>4. call[t].handle \in Handles /\ CallOK(c, created)
  BY <1>2, <1>3 DEF CallOK
<1>5. /\ Table'
      /\ refs' \in [Objects -> Int]
      /\ \A o \in Objects : /\ Len(handles[o]) \in Nat /\ Len(handles'[o]) \in Nat
                            /\ refs'[o] = refs[o] + Len(handles'[o]) - Len(handles[o])
  <2>1. Table /\ refs \in [Objects -> Nat] /\ created' = created
    BY DEF Inv, Counted
  <2> QED
    BY <1>4, <2>1, ReleaseHandleKeepsTable, Zenon
<1>6. Title'
  BY TitleUnchanged DEF Inv
<1> QED
  BY <1>1, <1>2, <1>4, <1>5, <1>6, TableStep

LEMMA RetainStep ==
  ASSUME Inv, NEW t \in Threads, NEW p \in {"return", "drop"}, Goto(t, p),
         call[t].at \in {"retaining", "referring"}, RetainHandle(call[t].handle),
         UNCHANGED <<object, created, refs, handles, cell, header, name, names>>, Title'
  PROVE  Inv'
<1> DEFINE c == [call[t] EXCEPT !.at = p, !.handle = None]
<1>1. Becomes(t, c)
  BY DEF Goto
<1>2. c \in CallType /\ c.at = p /\ c.object = call[t].object
  <2>1. p \in Places
    BY DEF Places
  <2> QED
    BY <2>1, NextCall
<1> HIDE DEF c
<1>3. CallOK(call[t], created)
  BY IdleHoldsNothing
<1>4. call[t].handle \in Handles /\ CallOK(c, created)
  BY <1>2, <1>3 DEF CallOK
<1>5. count' \in [Handles -> Int]
  <2>1. count \in [Handles -> Int]
    BY DEF Inv, Table
  <2> QED
    BY <1>4, <2>1 DEF RetainHandle
<1> QED
  BY <1>1, <1>2, <1>4, <1>5, QuietStep

LEMMA ReleaseNamedKeeps ==
  ASSUME Inv, NEW t \in Threads, ReleaseNamed(t)
  PROVE  Inv'
BY ReleaseStep DEF ReleaseNamed, At, titleVars

LEMMA DereferKeeps ==
  ASSUME Inv, NEW t \in Threads, Derefer(t)
  PROVE  Inv'
BY ReleaseStep DEF Derefer, At, titleVars

LEMMA RetainNamedKeeps ==
  ASSUME Inv, NEW t \in Threads, RetainNamed(t)
  PROVE  Inv'
<1>1. Title'
  BY TitleUnchanged DEF Inv, RetainNamed, objectVars, titleVars
<1> QED
  BY <1>1, RetainStep DEF RetainNamed, At, objectVars

LEMMA ReferKeeps ==
  ASSUME Inv, NEW t \in Threads, Refer(t)
  PROVE  Inv'
<1>1. /\ call[t].at = "referring"
      /\ pointers' = [pointers EXCEPT ![t] = @ \cup {call[t].object}]
      /\ UNCHANGED <<created, open, mode>>
  BY DEF Refer, At, objectVars
<1>2. CallOK(call[t], created)
  BY IdleHoldsNothing
<1>3. call[t].object \in 1..created
  BY <1>1, <1>2 DEF CallOK
<1>4. Title
  BY DEF Inv
<1>5. Title'
  BY <1>1, <1>3, <1>4 DEF Title
<1> QED
  BY <1>5, RetainStep DEF Refer, At, objectVars

LEMMA EndStep ==
  ASSUME Inv, NEW t \in Threads, End(t), call[t].object # None, Release(call[t].object),
         UNCHANGED <<object, count, created, handles, cell, header, name, names>>, Title'
  PROVE  Inv'
<1>1. CallOK(Idle, created)
  BY IdleCall DEF CallOK
<1> QED
  BY <1>1, IdleCall, DropStep DEF End

LEMMA ReturnNamedKeeps ==
  ASSUME Inv, NEW t \in Threads, ReturnNamed(t)
  PROVE  Inv'
<1>1. /\ call[t].at = "return" /\ Release(call[t].object) /\ End(t)
      /\ open' = [open EXCEPT ![t] = @ \cup {<<cell[call[t].object], call[t].object>>}]
      /\ UNCHANGED <<object, count, created, handles, cell, header, name, names, pointers, mode>>
  BY DEF ReturnNamed, At, tableVars
<1>2. CallOK(call[t], created)
  BY IdleHoldsNothing
<1>3. call[t].object # None /\ call[t].object \in 1..created
  BY <1>1, <1>2 DEF CallOK
<1>4. cell[call[t].object] \in Handles
  BY <1>3 DEF Inv, Table
<1>5. Title'
  BY <1>1, <1>3, <1>4 DEF Inv, Title
<1> QED
  BY <1>1, <1>3, <1>5, EndStep

LEMMA ReturnCreatedKeeps ==
  ASSUME Inv, NEW t \in Threads, ReturnCreated(t)
  PROVE  Inv'
<1>1. /\ call[t].at = "created" /\ Release(call[t].object) /\ End(t)
      /\ open' = [open EXCEPT ![t] = @ \cup {<<cell[call[t].object], call[t].object>>}]
      /\ UNCHANGED <<object, count, created, handles, cell, header, name, names, pointers, mode>>
  BY DEF ReturnCreated, At, tableVars
<1>2. CallOK(call[t], created)
  BY IdleHoldsNothing
<1>3. call[t].object # None /\ call[t].object \in 1..created
  BY <1>1, <1>2 DEF CallOK
<1>4. cell[call[t].object] \in Handles
  BY <1>3 DEF Inv, Table
<1>5. Title'
  BY <1>1, <1>3, <1>4 DEF Inv, Title
<1> QED
  BY <1>1, <1>3, <1>5, EndStep

LEMMA DropKeeps ==
  ASSUME Inv, NEW t \in Threads, Drop(t)
  PROVE  Inv'
<1> DEFINE c == [Idle EXCEPT !.at = "close", !.source = call[t].source]
<1>1. /\ call[t].at = "drop" /\ Release(call[t].object)
      /\ IF call[t].source = None THEN End(t) ELSE Becomes(t, c)
      /\ UNCHANGED <<object, count, created, handles, cell, header, name, names, open, pointers, mode>>
  BY DEF Drop, At, tableVars, titleVars
<1>2. call[t] \in CallType /\ CallOK(call[t], created)
  BY IdleHoldsNothing
<1>3. call[t].object # None
  BY <1>1, <1>2 DEF CallOK
<1>4. Title'
  BY <1>1, TitleUnchanged DEF Inv
<1>5. CASE call[t].source = None
  BY <1>1, <1>3, <1>4, <1>5, EndStep
<1>6. CASE call[t].source # None
  <2>1. call[t].source \in Handles
    BY <1>2, <1>6 DEF CallType
  <2>2. c \in CallType /\ c.at = "close" /\ c.object = None /\ c.source \in Handles
    BY <2>1 DEF Idle, CallType, Places
  <2>3. Becomes(t, c)
    BY <1>1, <1>6
  <2> HIDE DEF c
  <2>4. CallOK(c, created)
    BY <2>2 DEF CallOK
  <2> QED
    BY <1>1, <1>3, <1>4, <2>2, <2>3, <2>4, DropStep
<1> QED
  BY <1>5, <1>6

LEMMA CreateKeeps ==
  ASSUME Inv, NEW t \in Threads, Create(t)
  PROVE  Inv'
<1> USE ObjectTableAssumption
<1> DEFINE p == IF call[t].name = None THEN "created" ELSE "name"
           c == [call[t] EXCEPT !.at = p, !.object = created']
<1>1. PICK h \in Handles : AddHandle(h, created', 2) /\ header' = [header EXCEPT ![created'] = h]
  BY DEF Create
<1>2. /\ call[t].at = "create" /\ created < MaxObjects /\ created' = created + 1 /\ Becomes(t, c)
      /\ UNCHANGED <<name, names, open, pointers, mode>>
  BY DEF Create, At, titleVars
<1>3. created \in 0..MaxObjects
  BY DEF Inv, Table
<1>4. created' \in Objects /\ created' \in 0..MaxObjects /\ created' \in Nat /\ created' # None
  BY <1>2, <1>3 DEF Objects
<1>5. call[t] \in CallType /\ CallOK(call[t], created)
  BY IdleHoldsNothing
<1>6. c \in CallType /\ c.at = p /\ c.object = created' /\ c.name = call[t].name
  <2>1. p \in Places
    BY DEF Places
  <2> QED
    BY <1>4, <1>5, <2>1 DEF CallType
<1>7. CallOK(c, created')
  <2>1. c.at = "name" => c.name \in Names
    BY <1>5, <1>6 DEF CallType
  <2>2. c.at \in {"created", "name"}
    BY <1>6
  <2> HIDE DEF c, p
  <2>3. c.object \in 1..created' /\ c.object # None
    BY <1>2, <1>3, <1>4, <1>6
  <2> QED
    BY <2>1, <2>2, <2>3 DEF CallOK
<1> HIDE DEF c
<1>8. PICK new \in Objects : new = created' /\ new = created + 1
  BY <1>2, <1>4
<1>9. /\ Table'
       /\ refs' \in [Objects -> Int]
       /\ \A o \in Objects : /\ Len(handles[o]) \in Nat /\ Len(handles'[o]) \in Nat
                             /\ o = new => /\ Len(handles'[o]) = Len(handles[o]) + 1
                                           /\ refs'[o] = refs[o] + 2
                             /\ o # new => handles'[o] = handles[o] /\ refs'[o] = refs[o]
  <2>1. Table /\ refs \in [Objects -> Nat] /\ names' = names
    BY <1>2 DEF Inv, Counted
  <2>2. AddHandle(h, new, 2) /\ created' \in 0..MaxObjects /\ 2 \in Nat
    BY <1>1, <1>4, <1>8, Zenon
  <2> QED
    BY <1>2, <1>8, <2>1, <2>2, AddHandleKeepsTable
<1>10. Headers'
  <2>1. Headers
    BY DEF Inv
  <2>2. \A o \in 1..created' : o = created' \/ o \in 1..created
    BY <1>2, <1>3
  <2>3. header' \in [Objects -> Handles \cup {None}] /\ name' \in [Objects -> Names \cup {None}]
    BY <1>1, <1>2, <2>1 DEF Headers
  <2>4. \A o \in 1..created' : header'[o] \in Handles
    <3>1. SUFFICES ASSUME NEW o \in 1..created'
                   PROVE  header'[o] \in Handles
      OBVIOUS
    <3>2. CASE o = created'
      BY <1>1, <1>4, <2>1, <3>2 DEF Headers
    <3>3. CASE o # created'
      <4>1. o \in 1..created /\ header[o] \in Handles
        BY <2>1, <2>2, <3>3 DEF Headers
      <4>2. o \in Objects
        BY <1>3, <4>1 DEF Objects
      <4> QED
        BY <1>1, <2>1, <3>3, <4>1, <4>2 DEF Headers
    <3> QED
      BY <3>2, <3>3
  <2> QED
    BY <2>3, <2>4 DEF Headers
<1>11. Title'
  <2>1. Title
    BY DEF Inv
  <2>2. 1..created \subseteq 1..created'
    BY <1>2, <1>3
  <2>3. Handles \X (1..created) \subseteq Handles \X (1..created')
    BY <2>2
  <2>4. mode' \in Modes
    BY <1>2, <2>1 DEF Title
  <2>5. open' \in [Threads -> SUBSET (Handles \X (1..created'))]
    <3>1. SUBSET (Handles \X (1..created)) \subseteq SUBSET (Handles \X (1..created'))
      BY <2>3, Zenon
    <3>2. open' \in [Threads -> SUBSET (Handles \X (1..created))]
      BY <1>2, <2>1 DEF Title
    <3> QED
      BY <3>1, <3>2
  <2>6. pointers' \in [Threads -> SUBSET (1..created')]
    <3>1. SUBSET (1..created) \subseteq SUBSET (1..created')
      BY <2>2, Zenon
    <3>2. pointers' \in [Threads -> SUBSET (1..created)]
      BY <1>2, <2>1 DEF Title
    <3> QED
      BY <3>1, <3>2
  <2> QED
    BY <2>4, <2>5, <2>6 DEF Title
<1>12. call[t].object = None
  BY <1>2, <1>5 DEF CallOK
<1>13. \A o \in Objects :
        refs'[o] = refs[o] + Len(handles'[o]) - Len(handles[o])
                   + (IF c.object = o THEN 1 ELSE 0) - (IF call[t].object = o THEN 1 ELSE 0)
  <2>1. \A o \in Objects : o # None
    BY DEF Objects
  <2>2. refs \in [Objects -> Nat]
    BY DEF Inv, Counted
  <2>3. SUFFICES ASSUME NEW o \in Objects
                 PROVE  refs'[o] = refs[o] + Len(handles'[o]) - Len(handles[o])
                                   + (IF c.object = o THEN 1 ELSE 0) - (IF call[t].object = o THEN 1 ELSE 0)
    OBVIOUS
  <2>4. call[t].object # o /\ refs[o] \in Nat
    BY <1>12, <2>1, <2>2
  <2>5. Len(handles[o]) \in Nat /\ c.object = new
    BY <1>6, <1>8, <1>9
  <2>6. CASE o = new
    <3>1. Len(handles'[o]) = Len(handles[o]) + 1 /\ refs'[o] = refs[o] + 2
      BY <1>9, <2>6
    <3> QED
      BY <2>4, <2>5, <2>6, <3>1
  <2>7. CASE o # new
    <3>1. handles'[o] = handles[o] /\ refs'[o] = refs[o]
      BY <1>9, <2>7
    <3> QED
      BY <2>4, <2>5, <2>7, <3>1
  <2> QED
    BY <2>6, <2>7
<1>14. \A o \in Objects : Len(handles[o]) \in Nat /\ Len(handles'[o]) \in Nat
  BY <1>9
<1>15. created' \in {created, created + 1}
  BY <1>2
<1> QED
  BY <1>2, <1>6, <1>7, <1>10, <1>11, <1>13, <1>14, <1>15, <1>9, MoveStep

LEMMA SetAttributesKeeps ==
  ASSUME Inv, NEW t \in Threads, SetAttributes(t)
  PROVE  Inv'
<1> DEFINE c == [call[t] EXCEPT !.at = "created", !.handle = None]
           o == call[t].object
           n == call[t].name
<1>1. /\ call[t].at = "name" /\ Becomes(t, c)
      /\ name' = [name EXCEPT ![o] = n]
      /\ names' = [names EXCEPT ![n] = IF @ = None THEN cell[o] ELSE @]
      /\ UNCHANGED <<object, count, created, refs, handles, cell, header, open, pointers, mode>>
  BY DEF SetAttributes, At, Goto, tableVars, titleVars
<1>2. CallOK(call[t], created)
  BY IdleHoldsNothing
<1>3. o \in 1..created /\ n \in Names
  BY <1>1, <1>2 DEF CallOK
<1>4. cell[o] \in Handles
  BY <1>3 DEF Inv, Table
<1>5. c \in CallType /\ c.at = "created" /\ c.object = o
  <2>1. "created" \in Places
    BY DEF Places
  <2> QED
    BY <2>1, NextCall
<1> HIDE DEF c
<1>6. CallOK(c, created')
  BY <1>1, <1>2, <1>5 DEF CallOK
<1>7. Headers'
  BY <1>1, <1>3 DEF Inv, Headers
<1>8. Title'
  BY <1>1, TitleUnchanged DEF Inv
<1>9. Table'
  <2>1. names' \in [Names -> Handles \cup {None}]
    BY <1>1, <1>4 DEF Inv, Table
  <2>2. HandlesMatchTable'
    BY <1>1 DEF Inv, Table, HandlesMatchTable
  <2> QED
    BY <1>1, <2>1, <2>2 DEF Inv, Table
<1>10. \A q \in Objects : Len(handles[q]) \in Nat /\ Len(handles'[q]) \in Nat
  BY <1>1, LenProperties DEF Inv, Table
<1>11. refs' \in [Objects -> Int] /\ refs \in [Objects -> Nat]
  BY <1>1 DEF Inv, Counted
<1>12. \A q \in Objects :
        refs'[q] = refs[q] + Len(handles'[q]) - Len(handles[q])
                   + (IF c.object = q THEN 1 ELSE 0) - (IF call[t].object = q THEN 1 ELSE 0)
  BY <1>1, <1>5, <1>10, <1>11
<1> QED
  BY <1>1, <1>5, <1>6, <1>7, <1>8, <1>9, <1>10, <1>11, <1>12, MoveStep

LEMMA ObOpenObjectByNameKeeps ==
  ASSUME Inv, NEW t \in Threads, NEW n \in Names, ObOpenObjectByName(t, n)
  PROVE  Inv'
<1>1. /\ names[n] # None /\ RetainByName(n)
      /\ open' = IF object[names[n]] = None
                 THEN open
                 ELSE [open EXCEPT ![t] = @ \cup {<<names[n], object[names[n]]>>}]
      /\ UNCHANGED <<object, created, refs, handles, cell, header, name, names, call, pointers, mode>>
  BY DEF ObOpenObjectByName, objectVars
<1>2. Table /\ Title
  BY DEF Inv
<1>3. count' \in [Handles -> Int]
  BY <1>1, <1>2, RetainByNameCounts
<1>4. names[n] \in Handles
  BY <1>1, <1>2 DEF Table
<1>5. object[names[n]] # None => object[names[n]] \in 1..created
  BY <1>2, <1>4 DEF Table
<1>6. Title'
  BY <1>1, <1>2, <1>4, <1>5 DEF Title
<1>7. call[t] \in CallType /\ Becomes(t, call[t]) /\ CallOK(call[t], created)
  BY <1>1, Unmoved
<1> QED
  BY <1>1, <1>3, <1>6, <1>7, QuietStep

LEMMA NtCloseKeeps ==
  ASSUME Inv, NEW t \in Threads, NEW h \in Handles, NEW o, NtClose(t, h, o)
  PROVE  Inv'
<1>1. /\ ReleaseHandle(h)
      /\ open' = [open EXCEPT ![t] = @ \ {<<h, o>>}]
      /\ UNCHANGED <<created, header, name, call, pointers, mode>>
  BY DEF NtClose
<1>2. /\ Table'
      /\ refs' \in [Objects -> Int]
      /\ \A p \in Objects : /\ Len(handles[p]) \in Nat /\ Len(handles'[p]) \in Nat
                            /\ refs'[p] = refs[p] + Len(handles'[p]) - Len(handles[p])
  <2>1. Table /\ refs \in [Objects -> Nat] /\ created' = created
    BY <1>1 DEF Inv, Counted
  <2> QED
    BY <1>1, <2>1, ReleaseHandleKeepsTable, Zenon
<1>3. Title'
  BY <1>1 DEF Inv, Title
<1>4. call[t] \in CallType /\ Becomes(t, call[t]) /\ CallOK(call[t], created)
  BY <1>1, Unmoved
<1> QED
  BY <1>1, <1>2, <1>3, <1>4, TableStep

LEMMA NtDuplicateObjectKeeps ==
  ASSUME Inv, NEW t \in Threads, NEW h \in Handles, NEW o, NEW source \in {None, h},
         NtDuplicateObject(t, h, o, source)
  PROVE  Inv'
<1>1. /\ call[t].at = "idle" /\ LookupObject(t, h, "add", source)
      /\ UNCHANGED <<object, count, created, handles, cell, header, name, names, open, pointers, mode>>
  BY DEF NtDuplicateObject, Begin, tableVars, titleVars
<1>2. call[t].object = None
  BY <1>1, IdleHoldsNothing
<1>3. Title'
  BY <1>1, TitleUnchanged DEF Inv
<1> QED
  BY <1>1, <1>2, <1>3, LookupStep

LEMMA ObReferenceObjectByHandleKeeps ==
  ASSUME Inv, NEW t \in Threads, NEW h \in Handles, NEW o, ObReferenceObjectByHandle(t, h, o)
  PROVE  Inv'
<1>1. /\ call[t].at = "idle" /\ LookupObject(t, h, "refer", None)
      /\ UNCHANGED <<object, count, created, handles, cell, header, name, names, open, pointers, mode>>
  BY DEF ObReferenceObjectByHandle, Begin, tableVars, titleVars
<1>2. call[t].object = None
  BY <1>1, IdleHoldsNothing
<1>3. Title'
  BY <1>1, TitleUnchanged DEF Inv
<1> QED
  BY <1>1, <1>2, <1>3, LookupStep

LEMMA ObDereferenceObjectKeeps ==
  ASSUME Inv, NEW t \in Threads, NEW o \in pointers[t], ObDereferenceObject(t, o)
  PROVE  Inv'
<1>1. /\ call[t].at = "idle"
      /\ pointers' = [pointers EXCEPT ![t] = @ \ {o}]
      /\ IF object[header[o]] = o
         THEN LookupObject(t, header[o], "derefer", None)
         ELSE UNCHANGED <<refs, call>>
      /\ UNCHANGED <<object, count, created, handles, cell, header, name, names, open, mode>>
  BY DEF ObDereferenceObject, Begin, tableVars
<1>2. call[t].object = None
  BY <1>1, IdleHoldsNothing
<1>3. o \in 1..created /\ Title
  BY DEF Inv, Title
<1>4. Title'
  BY <1>1, <1>3 DEF Title
<1>5. header[o] \in Handles
  BY <1>3 DEF Inv, Headers
<1>6. CASE object[header[o]] = o
  <2>1. LookupObject(t, header[o], "derefer", None)
    BY <1>1, <1>6
  <2> QED
    BY <1>1, <1>2, <1>4, <1>5, <2>1, LookupStep
<1>7. CASE object[header[o]] # o
  <2>1. UNCHANGED <<refs, call>>
    BY <1>1, <1>7
  <2>2. call[t] \in CallType /\ Becomes(t, call[t]) /\ CallOK(call[t], created)
    BY <2>1, Unmoved
  <2>3. count' \in [Handles -> Int]
    BY <1>1 DEF Inv, Table
  <2> QED
    BY <1>1, <1>4, <2>1, <2>2, <2>3, QuietStep
<1> QED
  BY <1>6, <1>7

LEMMA AddDuplicateKeeps ==
  ASSUME Inv, NEW t \in Threads, AddDuplicate(t)
  PROVE  Inv'
<1> DEFINE c == [call[t] EXCEPT !.at = "drop", !.handle = None]
<1>1. PICK h \in Handles : /\ AddHandle(h, call[t].object, 1)
                           /\ open' = [open EXCEPT ![t] = @ \cup {<<h, call[t].object>>}]
  BY DEF AddDuplicate
<1>2. /\ call[t].at = "add" /\ Becomes(t, c)
      /\ UNCHANGED <<created, header, name, names, pointers, mode>>
  BY DEF AddDuplicate, At, Goto
<1>3. c \in CallType /\ c.at = "drop" /\ c.object = call[t].object
  <2>1. "drop" \in Places
    BY DEF Places
  <2> QED
    BY <2>1, NextCall
<1> HIDE DEF c
<1>4. CallOK(call[t], created) /\ call[t] \in CallType
  BY IdleHoldsNothing
<1>5. CallOK(c, created) /\ call[t].object \in 1..created
  BY <1>2, <1>3, <1>4 DEF CallOK
<1>6. call[t].object \in Objects
  BY <1>2, <1>4 DEF CallOK, CallType
<1>7. Table /\ refs \in [Objects -> Nat]
  BY DEF Inv, Counted
<1>8. /\ Table'
      /\ refs' \in [Objects -> Int]
      /\ \A o \in Objects : /\ Len(handles[o]) \in Nat /\ Len(handles'[o]) \in Nat
                            /\ o = call[t].object => /\ Len(handles'[o]) = Len(handles[o]) + 1
                                                     /\ refs'[o] = refs[o] + 1
                            /\ o # call[t].object => handles'[o] = handles[o] /\ refs'[o] = refs[o]
  <2>1. created' = created /\ created' \in 0..MaxObjects /\ names' = names
    BY <1>2, <1>7 DEF Table
  <2> QED
    BY <1>1, <1>5, <1>6, <1>7, <2>1, AddHandleKeepsTable
<1>9. \A o \in Objects : /\ Len(handles[o]) \in Nat /\ Len(handles'[o]) \in Nat
                         /\ refs'[o] = refs[o] + Len(handles'[o]) - Len(handles[o])
  <2>1. SUFFICES ASSUME NEW o \in Objects
                 PROVE  refs'[o] = refs[o] + Len(handles'[o]) - Len(handles[o])
    BY <1>8
  <2>2. refs[o] \in Nat /\ Len(handles[o]) \in Nat
    BY <1>7, <1>8
  <2>3. CASE o = call[t].object
    <3>1. Len(handles'[o]) = Len(handles[o]) + 1 /\ refs'[o] = refs[o] + 1
      BY <1>8, <2>3
    <3> QED
      BY <2>2, <3>1
  <2>4. CASE o # call[t].object
    <3>1. handles'[o] = handles[o] /\ refs'[o] = refs[o]
      BY <1>8, <2>4
    <3> QED
      BY <2>2, <3>1
  <2> QED
    BY <2>3, <2>4
<1>10. Title'
  <2>1. Title
    BY DEF Inv
  <2> QED
    BY <1>1, <1>2, <1>5, <2>1 DEF Title
<1> QED
  BY <1>2, <1>3, <1>5, <1>8, <1>9, <1>10, TableStep

LEMMA CloseSourceKeeps ==
  ASSUME Inv, NEW t \in Threads, CloseSource(t)
  PROVE  Inv'
<1> DEFINE h == call[t].source
<1>1. /\ call[t].at = "close" /\ End(t)
      /\ open' = [open EXCEPT ![t] = {right \in @ : right[1] # h}]
      /\ IF object[h] = None
         THEN UNCHANGED <<object, count, handles, cell, names, refs>>
         ELSE RemoveHandle(h)
      /\ UNCHANGED <<created, header, name, pointers, mode>>
  BY DEF CloseSource, At, tableVars
<1>2. CallOK(call[t], created)
  BY IdleHoldsNothing
<1>3. h \in Handles /\ call[t].object = None
  BY <1>1, <1>2 DEF CallOK
<1>4. CallOK(Idle, created)
  BY IdleCall DEF CallOK
<1>5. Table /\ refs \in [Objects -> Nat]
  BY DEF Inv, Counted
<1>6. /\ Table'
      /\ refs' \in [Objects -> Int]
      /\ \A o \in Objects : /\ Len(handles[o]) \in Nat /\ Len(handles'[o]) \in Nat
                            /\ refs'[o] = refs[o] + Len(handles'[o]) - Len(handles[o])
  <2>1. CASE object[h] = None
    <3>1. UNCHANGED <<object, count, handles, cell, names, refs, created>>
      BY <1>1, <2>1
    <3>2. count' \in [Handles -> Int]
      BY <1>5, <3>1 DEF Table
    <3>3. Table' /\ \A o \in Objects : Len(handles[o]) \in Nat /\ Len(handles'[o]) = Len(handles[o])
      BY <1>5, <3>1, <3>2, TableUnchanged
    <3> QED
      BY <1>5, <3>1, <3>3
  <2>2. CASE object[h] # None
    <3>1. RemoveHandle(h) /\ created' = created
      BY <1>1, <2>2
    <3> QED
      BY <1>3, <1>5, <2>2, <3>1, RemoveHandleKeepsTable, Zenon
  <2> QED
    BY <2>1, <2>2
<1>7. Title'
  <2>1. Title
    BY DEF Inv
  <2> QED
    BY <1>1, <2>1 DEF Title
<1> QED
  BY <1>1, <1>3, <1>4, <1>6, <1>7, IdleCall, TableStep DEF End

-----------------------------------------------------------------------------
(* The invariant and what it implies.                                      *)

LEMMA InitEstablishes == Init => Inv
<1> SUFFICES ASSUME Init PROVE Inv
  OBVIOUS
<1> USE ObjectTableAssumption
<1>1. Table
  <2>1. HandlesMatchTable
    <3>1. SUFFICES ASSUME NEW o \in Objects
                   PROVE  IsInjective(handles[o]) /\ ToSet(handles[o]) = {h \in Handles : object[h] = o}
      BY Zenon DEF HandlesMatchTable
    <3>2. handles[o] = <<>> /\ {h \in Handles : object[h] = o} = {}
      BY DEF Init, Objects
    <3>3. IsInjective(<<>>) /\ ToSet(<<>>) = {}
      BY DEF IsInjective, ToSet
    <3> QED
      BY <3>2, <3>3
  <2>2. created = 0 /\ 1..created = {}
    BY DEF Init
  <2>3. <<>> \in Seq(Handles)
    BY EmptySeq
  <2> QED
    BY <2>1, <2>2, <2>3 DEF Init, Table
<1>2. Headers
  BY DEF Init, Headers
<1>3. Calls
  <2>1. CallOK(Idle, created)
    BY IdleCall DEF CallOK
  <2> QED
    BY <2>1, IdleCall DEF Init, Calls
<1>4. Title
  BY DEF Init, Title
<1>5. Counted
  <2>1. \A o \in Objects : Users(o) = {} /\ handles[o] = <<>>
    <3>1. \A o \in Objects : o # None
      BY DEF Objects
    <3>2. \A t \in Threads : call[t].object = None
      BY IdleCall DEF Init
    <3>3. \A o \in Objects : handles[o] = <<>>
      BY DEF Init
    <3> QED
      BY <3>1, <3>2, <3>3 DEF Users
  <2>2. Cardinality({}) = 0 /\ Len(<<>>) = 0
    BY FS_EmptySet
  <2>3. \A o \in Objects : Len(handles[o]) = 0 /\ Cardinality(Users(o)) = 0
    BY <2>1, <2>2, Zenon
  <2> QED
    BY <2>3 DEF Init, Counted, RefsExact
<1> QED
  BY <1>1, <1>2, <1>3, <1>4, <1>5 DEF Inv

LEMMA StutterKeeps == Inv /\ UNCHANGED vars => Inv'
<1> SUFFICES ASSUME Inv, UNCHANGED vars PROVE Inv'
  OBVIOUS
<1>1. /\ UNCHANGED <<object, count, created, refs, handles, cell, header, name, names, call>>
      /\ UNCHANGED <<open, pointers, mode>>
  BY DEF vars, tableVars, objectVars, titleVars
<1>2. Table' /\ Headers'
  BY <1>1 DEF Inv, Table, Headers, HandlesMatchTable
<1>3. Calls' /\ Title'
  BY <1>1 DEF Inv, Calls, Title
<1>4. Counted'
  BY <1>1 DEF Inv, Counted, RefsExact, Users
<1> QED
  BY <1>2, <1>3, <1>4 DEF Inv

LEMMA NextKeeps ==
  ASSUME Inv, Next
  PROVE  Inv'
<1>1. PICK t \in Threads :
        \/ CreateUnnamed(t)
        \/ \E n \in Names : CreateNewName(t, n) \/ CreateKnownName(t, n) \/ ObOpenObjectByName(t, n)
        \/ LookUpNamed(t) \/ ReadHandle(t) \/ ReleaseNamed(t) \/ RetainNamed(t) \/ ReturnNamed(t)
        \/ Create(t) \/ SetAttributes(t) \/ ReturnCreated(t)
        \/ \E right \in open[t] :
             \/ NtClose(t, right[1], right[2])
             \/ ObReferenceObjectByHandle(t, right[1], right[2])
             \/ \E source \in {None, right[1]} : NtDuplicateObject(t, right[1], right[2], source)
        \/ AddDuplicate(t) \/ CloseSource(t)
        \/ Refer(t)
        \/ \E o \in pointers[t] : ObDereferenceObject(t, o)
        \/ Derefer(t) \/ Drop(t)
  BY Zenon DEF Next
<1>2. CASE CreateUnnamed(t)
  BY <1>2, CreateUnnamedKeeps
<1>3. CASE \E n \in Names : CreateNewName(t, n) \/ CreateKnownName(t, n) \/ ObOpenObjectByName(t, n)
  BY <1>3, CreateNewNameKeeps, CreateKnownNameKeeps, ObOpenObjectByNameKeeps, Zenon
<1>4. CASE LookUpNamed(t) \/ ReadHandle(t) \/ ReleaseNamed(t) \/ RetainNamed(t) \/ ReturnNamed(t)
  BY <1>4, LookUpNamedKeeps, ReadHandleKeeps, ReleaseNamedKeeps, RetainNamedKeeps, ReturnNamedKeeps, Zenon
<1>5. CASE Create(t) \/ SetAttributes(t) \/ ReturnCreated(t)
  BY <1>5, CreateKeeps, SetAttributesKeeps, ReturnCreatedKeeps, Zenon
<1>6. CASE \E right \in open[t] :
             \/ NtClose(t, right[1], right[2])
             \/ ObReferenceObjectByHandle(t, right[1], right[2])
             \/ \E source \in {None, right[1]} : NtDuplicateObject(t, right[1], right[2], source)
  <2>1. PICK right \in open[t] :
             \/ NtClose(t, right[1], right[2])
             \/ ObReferenceObjectByHandle(t, right[1], right[2])
             \/ \E source \in {None, right[1]} : NtDuplicateObject(t, right[1], right[2], source)
    BY <1>6
  <2>2. right[1] \in Handles
    BY DEF Inv, Title
  <2> QED
    BY <2>1, <2>2, NtCloseKeeps, ObReferenceObjectByHandleKeeps, NtDuplicateObjectKeeps, Zenon
<1>7. CASE AddDuplicate(t) \/ CloseSource(t)
  BY <1>7, AddDuplicateKeeps, CloseSourceKeeps, Zenon
<1>8. CASE Refer(t)
  BY <1>8, ReferKeeps
<1>9. CASE \E o \in pointers[t] : ObDereferenceObject(t, o)
  BY <1>9, ObDereferenceObjectKeeps, Zenon
<1>10. CASE Derefer(t) \/ Drop(t)
  BY <1>10, DereferKeeps, DropKeeps, Zenon
<1> QED
  BY <1>1, <1>2, <1>3, <1>4, <1>5, <1>6, <1>7, <1>8, <1>9, <1>10, Zenon

LEMMA TypeFollows == Inv => TypeOK
<1> SUFFICES ASSUME Inv PROVE TypeOK
  OBVIOUS
<1>1. 1..created \subseteq Objects
  <2>1. created \in 0..MaxObjects /\ MaxObjects \in Nat
    BY ObjectTableAssumption DEF Inv, Table
  <2> QED
    BY <2>1 DEF Objects
<1>2. object \in [Handles -> Objects \cup {None}]
  <2>1. object \in [Handles -> (1..created) \cup {None}]
    BY DEF Inv, Table
  <2> DEFINE known == 1..created
  <2>2. known \subseteq Objects /\ object \in [Handles -> known \cup {None}]
    BY <1>1, <2>1
  <2> HIDE DEF known
  <2> QED
    BY <2>2
<1>3. open \in [Threads -> SUBSET (Handles \X Objects)] /\ pointers \in [Threads -> SUBSET Objects]
  <2>1. Handles \X (1..created) \subseteq Handles \X Objects
    BY <1>1
  <2>2. /\ SUBSET (1..created) \subseteq SUBSET Objects
        /\ SUBSET (Handles \X (1..created)) \subseteq SUBSET (Handles \X Objects)
    BY <1>1, <2>1, Zenon
  <2> QED
    BY <2>2 DEF Inv, Title
<1>4. call \in [Threads -> [at : Places, object : Objects \cup {None}, handle : Handles \cup {None},
                            name : Names \cup {None}, source : Handles \cup {None}]]
  BY DEF Inv, Calls, CallType
<1> QED
  BY <1>2, <1>3, <1>4 DEF Inv, Table, Headers, Title, Counted, TypeOK

-----------------------------------------------------------------------------
(***************************************************************************)
(* Calls that do not overlap.  What a handle is owed are the handles that  *)
(* are open on it and, because the counts go through handles_[0], all the  *)
(* references to its object when it is the first one.  Its count covers    *)
(* that and is at least 1; a call that is under way has more to give back. *)
(***************************************************************************)
IsFirst(h) == h = cell[object[h]]

Opened(h, o) == Cardinality(Openers(h, o))
Held(o) == Cardinality(Holders(o))
Owed(h) == Opened(h, object[h]) + (IF IsFirst(h) THEN Held(object[h]) ELSE 0)

Covered(h, n) == object[h] # None /\ count[h] >= Owed(h) + n

Alone == \A s, t \in Threads : s = t \/ call[s].at = "idle" \/ call[t].at = "idle"

CellFirst == \A o \in Objects : handles[o] # <<>> => cell[o] = Head(handles[o])

Rights ==
  /\ \A h \in Handles : object[h] # None => count[h] >= 1 /\ Covered(h, 0)
  /\ \A t \in Threads : \A right \in open[t] : object[right[1]] = right[2]
  /\ \A t \in Threads : \A o \in pointers[t] : object[cell[o]] = o

NamesGiven ==
  /\ \A n \in Names : names[n] # None =>
       object[names[n]] # None /\ IsFirst(names[n]) /\ name[object[names[n]]] = n
  /\ \A o \in Objects : name[o] # None => o <= created

\* What the place of a call says of the first handle of its object.
InCall(c) ==
  /\ c.source = None
  /\ c.at = "lookup" => IsFirst(c.handle) /\ Covered(c.handle, 1) /\ count[c.handle] >= 2
  /\ c.at \notin {"idle", "lookup", "create", "add", "drop", "close"}
       => object[cell[c.object]] = c.object
  /\ c.at \in {"releasing", "retaining", "referring", "dereferring"} => c.handle = cell[c.object]
  /\ c.at \in {"release", "releasing"} => count[cell[c.object]] >= 2
  /\ c.at \in {"name", "created", "release", "releasing", "return", "derefer", "dereferring"}
       => Covered(cell[c.object], 1)
  /\ c.at = "name" => name[c.object] = None

Serial == Alone /\ CellFirst /\ Rights /\ NamesGiven /\ \A t \in Threads : InCall(call[t])

SerialInv == mode = "serial" => Serial

\* The counts are natural numbers, before and after a step.
LEMMA CountsAreNat ==
  \A h, o : Opened(h, o) \in Nat /\ Opened(h, o)' \in Nat /\ Held(o) \in Nat /\ Held(o)' \in Nat
<1> SUFFICES ASSUME NEW h, NEW o
             PROVE  Opened(h, o) \in Nat /\ Opened(h, o)' \in Nat /\ Held(o) \in Nat /\ Held(o)' \in Nat
  OBVIOUS
<1>1. IsFiniteSet(Threads)
  BY ObjectTableAssumption
<1>2. /\ IsFiniteSet(Openers(h, o)) /\ IsFiniteSet(Openers(h, o)')
      /\ IsFiniteSet(Holders(o)) /\ IsFiniteSet(Holders(o)')
  BY <1>1, FS_Subset DEF Openers, Holders
<1> QED
  BY <1>2, FS_CardinalityType DEF Opened, Held

LEMMA OneMore ==
  ASSUME NEW S, IsFiniteSet(S), NEW A, A \subseteq S, NEW B, NEW t, B \subseteq A \cup {t}
  PROVE  Cardinality(B) <= Cardinality(A) + 1
<1>1. IsFiniteSet(A) /\ Cardinality(A) \in Nat
  BY FS_Subset, FS_CardinalityType
<1>2. IsFiniteSet(A \cup {t}) /\ Cardinality(A \cup {t}) \in Nat
  BY <1>1, FS_AddElement, FS_CardinalityType
<1>3. Cardinality(A \cup {t}) <= Cardinality(A) + 1
  BY <1>1, <1>2, FS_AddElement
<1>4. Cardinality(B) <= Cardinality(A \cup {t}) /\ Cardinality(B) \in Nat
  BY <1>2, FS_Subset, FS_CardinalityType
<1> QED
  BY <1>1, <1>2, <1>3, <1>4

LEMMA OneLess ==
  ASSUME NEW S, IsFiniteSet(S), NEW A, A \subseteq S, NEW t \in A, NEW B, B = A \ {t}
  PROVE  Cardinality(B) = Cardinality(A) - 1
<1>1. IsFiniteSet(A)
  BY FS_Subset
<1> QED
  BY <1>1, FS_RemoveElement

\* A thread opens a handle, closes one, references an object, dereferences one.
LEMMA OpenOne ==
  ASSUME NEW t \in Threads, NEW h, NEW o,
         \A s \in Threads : \A g, p :
           <<g, p>> \in open'[s] <=> <<g, p>> \in open[s] \/ (s = t /\ g = h /\ p = o)
  PROVE  \A g, p : IF g = h /\ p = o THEN Opened(g, p)' <= Opened(g, p) + 1
                                      ELSE Opened(g, p)' = Opened(g, p)
<1>0. IsFiniteSet(Threads)
  BY ObjectTableAssumption
<1>1. SUFFICES ASSUME NEW g, NEW p
               PROVE  IF g = h /\ p = o THEN Opened(g, p)' <= Opened(g, p) + 1
                                        ELSE Opened(g, p)' = Opened(g, p)
  OBVIOUS
<1>2. CASE g = h /\ p = o
  <2>1. Openers(g, p)' \subseteq Openers(g, p) \cup {t} /\ Openers(g, p) \subseteq Threads
    BY DEF Openers
  <2> QED
    BY <1>0, <1>2, <2>1, OneMore DEF Opened
<1>3. CASE ~ (g = h /\ p = o)
  BY <1>3 DEF Opened, Openers
<1> QED
  BY <1>2, <1>3

LEMMA CloseOne ==
  ASSUME NEW t \in Threads, NEW h, NEW o, t \in Openers(h, o),
         \A s \in Threads : \A g, p :
           <<g, p>> \in open'[s] <=> <<g, p>> \in open[s] /\ ~ (s = t /\ g = h /\ p = o)
  PROVE  \A g, p : IF g = h /\ p = o THEN Opened(g, p)' = Opened(g, p) - 1
                                      ELSE Opened(g, p)' = Opened(g, p)
<1>0. IsFiniteSet(Threads)
  BY ObjectTableAssumption
<1>1. SUFFICES ASSUME NEW g, NEW p
               PROVE  IF g = h /\ p = o THEN Opened(g, p)' = Opened(g, p) - 1
                                        ELSE Opened(g, p)' = Opened(g, p)
  OBVIOUS
<1>2. CASE g = h /\ p = o
  <2>1. Openers(g, p)' = Openers(g, p) \ {t} /\ t \in Openers(g, p) /\ Openers(g, p) \subseteq Threads
    BY <1>2 DEF Openers
  <2> QED
    BY <1>0, <1>2, <2>1, OneLess DEF Opened
<1>3. CASE ~ (g = h /\ p = o)
  BY <1>3 DEF Opened, Openers
<1> QED
  BY <1>2, <1>3

LEMMA ReferOne ==
  ASSUME NEW t \in Threads, NEW o, pointers'[t] = pointers[t] \cup {o}, \A s \in Threads \ {t} : pointers'[s] = pointers[s]
  PROVE  /\ \A p : p # o => Held(p)' = Held(p)
         /\ Held(o)' <= Held(o) + 1
<1>0. IsFiniteSet(Threads)
  BY ObjectTableAssumption
<1>1. \A s \in Threads : pointers'[s] = IF s = t THEN pointers[s] \cup {o} ELSE pointers[s]
  OBVIOUS
<1>2. ASSUME NEW p, p # o
      PROVE  Held(p)' = Held(p)
  <2>1. \A s \in Threads : p \in pointers'[s] <=> p \in pointers[s]
    BY <1>1, <1>2
  <2> QED
    BY <2>1 DEF Held, Holders
<1>3. Holders(o)' \subseteq Holders(o) \cup {t} /\ Holders(o) \subseteq Threads
  BY <1>1 DEF Holders
<1> QED
  BY <1>0, <1>2, <1>3, OneMore DEF Held

LEMMA DereferOne ==
  ASSUME NEW t \in Threads, NEW o \in pointers[t],
         pointers'[t] = pointers[t] \ {o}, \A s \in Threads \ {t} : pointers'[s] = pointers[s]
  PROVE  /\ \A p : p # o => Held(p)' = Held(p)
         /\ Held(o)' = Held(o) - 1
<1>0. IsFiniteSet(Threads)
  BY ObjectTableAssumption
<1>1. \A s \in Threads : pointers'[s] = IF s = t THEN pointers[s] \ {o} ELSE pointers[s]
  OBVIOUS
<1>2. ASSUME NEW p, p # o
      PROVE  Held(p)' = Held(p)
  <2>1. \A s \in Threads : p \in pointers'[s] <=> p \in pointers[s]
    BY <1>1, <1>2
  <2> QED
    BY <2>1 DEF Held, Holders
<1>3. Holders(o)' = Holders(o) \ {t} /\ t \in Holders(o) /\ Holders(o) \subseteq Threads
  BY <1>1 DEF Holders
<1> QED
  BY <1>0, <1>2, <1>3, OneLess DEF Held

-----------------------------------------------------------------------------
(* The first handle of an object.                                          *)

LEMMA KnownObject ==
  ASSUME Table, NEW h \in Handles, object[h] # None
  PROVE  object[h] \in 1..created /\ object[h] \in Objects
<1>1. object[h] \in 1..created /\ created \in 0..MaxObjects
  BY DEF Table
<1> QED
  BY <1>1, ObjectTableAssumption DEF Objects

\* An object with an entry has a first one.
LEMMA FirstEntry ==
  ASSUME Table, CellFirst, NEW h \in Handles, object[h] # None
  PROVE  LET g == cell[object[h]]
         IN  g \in Handles /\ object[g] = object[h] /\ IsFirst(g)
<1> DEFINE o == object[h]
<1>1. o \in Objects
  BY KnownObject
<1> HIDE DEF o
<1>2. handles[o] \in Seq(Handles) /\ ToSet(handles[o]) = {g \in Handles : object[g] = o}
  BY <1>1 DEF Table, HandlesMatchTable
<1>3. h \in ToSet(handles[o])
  BY <1>2 DEF o
<1>4. handles[o] # <<>>
  <2>1. ToSet(<<>>) = {}
    BY DEF ToSet
  <2> QED
    BY <1>3, <2>1
<1>5. Head(handles[o]) \in ToSet(handles[o])
  BY <1>2, <1>4, HeadInQueue
<1>6. cell[o] = Head(handles[o])
  BY <1>1, <1>4 DEF CellFirst
<1>7. cell[o] \in Handles /\ object[cell[o]] = o
  BY <1>2, <1>5, <1>6
<1> QED
  BY <1>7 DEF o, IsFirst

LEMMA NoEntry ==
  ASSUME Table, CellFirst, NEW o \in Objects, object[cell[o]] = o, cell[o] \in Handles
  PROVE  handles[o] # <<>>
<1>1. cell[o] \in ToSet(handles[o])
  BY DEF Table, HandlesMatchTable
<1>2. ToSet(<<>>) = {}
  BY DEF ToSet
<1> QED
  BY <1>1, <1>2

\* A new entry is the first one of an object that had none, and otherwise
\* leaves handles_[0] alone.
LEMMA AddHandleFirst ==
  ASSUME Table, CellFirst, NEW h \in Handles, NEW o \in Objects, NEW n, AddHandle(h, o, n)
  PROVE  /\ CellFirst'
         /\ \A p \in Objects \ {o} : cell'[p] = cell[p]
         /\ (\E g \in Handles : object[g] = o) => cell'[o] = cell[o]
         /\ ~ (\E g \in Handles : object[g] = o) => cell'[o] = h
<1>1. /\ handles[o] \in Seq(Handles)
      /\ ToSet(handles[o]) = {g \in Handles : object[g] = o}
      /\ handles \in [Objects -> Seq(Handles)]
      /\ cell \in [Objects -> Handles \cup {None}]
  BY DEF Table, HandlesMatchTable
<1>2. /\ handles' = [handles EXCEPT ![o] = Append(handles[o], h)]
      /\ cell' = [cell EXCEPT ![o] = IF handles[o] = <<>> THEN h ELSE cell[o]]
  BY DEF AddHandle
<1>3. /\ Append(handles[o], h) # <<>>
      /\ Head(Append(handles[o], h)) = IF handles[o] = <<>> THEN h ELSE Head(handles[o])
  BY <1>1, AppendProperties, HeadTailProperties, EmptySeq
<1>4. handles[o] = <<>> <=> ~ \E g \in Handles : object[g] = o
  <2>1. ToSet(<<>>) = {}
    BY DEF ToSet
  <2>2. handles[o] # <<>> => Head(handles[o]) \in ToSet(handles[o])
    BY <1>1, HeadInQueue
  <2> QED
    BY <1>1, <2>1, <2>2
<1>5. \A p \in Objects \ {o} : cell'[p] = cell[p] /\ handles'[p] = handles[p]
  BY <1>1, <1>2
<1>6. cell'[o] = (IF handles[o] = <<>> THEN h ELSE cell[o]) /\ handles'[o] = Append(handles[o], h)
  BY <1>1, <1>2
<1>7. CellFirst'
  <2>1. SUFFICES ASSUME NEW p \in Objects, handles'[p] # <<>>
                 PROVE  cell'[p] = Head(handles'[p])
    BY Zenon DEF CellFirst
  <2>2. CASE p = o
    BY <1>3, <1>6, <2>2 DEF CellFirst
  <2>3. CASE p # o
    BY <1>5, <2>1, <2>3 DEF CellFirst
  <2> QED
    BY <2>2, <2>3
<1> QED
  BY <1>4, <1>5, <1>6, <1>7

\* handles_[0] changes only when the first entry goes, for the next one if there is one.
LEMMA RemoveHandleFirst ==
  ASSUME Table, CellFirst, NEW h \in Handles, object[h] # None, RemoveHandle(h)
  PROVE  /\ CellFirst'
         /\ \A p \in Objects : p # object[h] \/ ~ IsFirst(h) => cell'[p] = cell[p]
<1> DEFINE o == object[h]
           rest == RemoveFirst(handles[o], h)
<1>1. o \in Objects
  BY KnownObject
<1>2. /\ handles[o] \in Seq(Handles)
      /\ ToSet(handles[o]) = {g \in Handles : object[g] = o}
      /\ handles \in [Objects -> Seq(Handles)]
      /\ cell \in [Objects -> Handles \cup {None}]
  BY <1>1 DEF Table, HandlesMatchTable
<1>3. /\ handles' = [handles EXCEPT ![o] = rest]
      /\ cell' = [cell EXCEPT ![o] = IF rest = <<>> THEN cell[o] ELSE Head(rest)]
  BY DEF RemoveHandle
<1> HIDE DEF o, rest
<1>4. \A p \in Objects \ {o} : cell'[p] = cell[p] /\ handles'[p] = handles[p]
  BY <1>2, <1>3
<1>5. cell'[o] = (IF rest = <<>> THEN cell[o] ELSE Head(rest)) /\ handles'[o] = rest
  BY <1>1, <1>2, <1>3
<1>6. CellFirst'
  <2>1. SUFFICES ASSUME NEW p \in Objects, handles'[p] # <<>>
                 PROVE  cell'[p] = Head(handles'[p])
    BY Zenon DEF CellFirst
  <2>2. CASE p = o
    BY <1>5, <2>1, <2>2
  <2>3. CASE p # o
    BY <1>4, <2>1, <2>3 DEF CellFirst
  <2> QED
    BY <2>2, <2>3
<1>7. ~ IsFirst(h) => cell'[o] = cell[o]
  <2>1. SUFFICES ASSUME ~ IsFirst(h)
                 PROVE  cell'[o] = cell[o]
    OBVIOUS
  <2>2. h \in ToSet(handles[o])
    BY <1>2 DEF o
  <2>3. handles[o] # <<>>
    <3>1. ToSet(<<>>) = {}
      BY DEF ToSet
    <3> QED
      BY <2>2, <3>1
  <2>4. cell[o] = Head(handles[o]) /\ cell[o] # h
    BY <1>1, <2>1, <2>3 DEF CellFirst, IsFirst, o
  <2>5. rest # <<>> /\ Head(rest) = Head(handles[o])
    BY <1>2, <2>3, <2>4, RemoveFirstHead DEF rest
  <2> QED
    BY <1>5, <2>4, <2>5
<1> QED
  BY <1>4, <1>6, <1>7 DEF o

-----------------------------------------------------------------------------
(* What the steps of serial calls keep.                                    *)

LEMMA OthersIdle ==
  ASSUME Serial, NEW t \in Threads, call[t].at # "idle" \/ Begin(t), mode = "serial"
  PROVE  \A s \in Threads \ {t} : call[s].at = "idle"
BY DEF Serial, Alone, Begin

\* A step of a thread, the others being idle, is judged by the call it leaves.
LEMMA SerialStep ==
  ASSUME Inv, Serial, NEW t \in Threads, NEW c, Becomes(t, c),
         \A s \in Threads \ {t} : call[s].at = "idle",
         CellFirst', Rights', NamesGiven', InCall(c)'
  PROVE  Serial'
<1>1. call' = [call EXCEPT ![t] = c] /\ call \in [Threads -> CallType]
  BY DEF Becomes, Inv, Calls
<1>2. call'[t] = c /\ \A s \in Threads \ {t} : call'[s] = call[s]
  BY <1>1
<1>3. Alone'
  BY <1>2 DEF Alone
<1>4. \A s \in Threads : InCall(call[s])'
  <2>1. InCall(call[t])'
    BY <1>2 DEF InCall
  <2>2. ASSUME NEW s \in Threads, s # t
        PROVE  InCall(call[s])'
    <3>1. call'[s] = call[s] /\ call[s].at = "idle" /\ call[s].source = None
      BY <1>2, <2>2 DEF Serial, InCall
    <3> QED
      BY <3>1 DEF InCall
  <2> QED
    BY <2>1, <2>2
<1> QED
  BY <1>3, <1>4 DEF Serial

\* An idle step leaves all calls as they are.
LEMMA SerialNoCall ==
  ASSUME Inv, Serial, \A s \in Threads : call[s].at = "idle", call' = call,
         CellFirst', Rights', NamesGiven'
  PROVE  Serial'
<1>1. Alone'
  BY DEF Alone
<1>2. \A s \in Threads : InCall(call[s])'
  BY DEF Serial, InCall
<1> QED
  BY <1>1, <1>2 DEF Serial

LEMMA OwedUnchanged ==
  ASSUME UNCHANGED <<object, cell, open, pointers>>
  PROVE  \A h : Owed(h)' = Owed(h) /\ IsFirst(h)' = IsFirst(h)
BY DEF Owed, IsFirst, Opened, Openers, Held, Holders

\* Nothing a right depends on changes, and no count goes down.
LEMMA RightsKept ==
  ASSUME Inv, Serial, UNCHANGED <<object, cell, open, pointers>>,
         count' = count \/ \E h \in Handles : count' = [count EXCEPT ![h] = count[h] + 1]
  PROVE  Rights'
<1>1. \A h \in Handles : count[h] \in Int /\ count'[h] \in Int /\ count'[h] >= count[h]
  BY DEF Inv, Table
<1>2. ASSUME NEW h \in Handles, object'[h] # None
      PROVE  count'[h] >= 1 /\ Covered(h, 0)'
  <2>1. Owed(h) \in Nat /\ Owed(h)' = Owed(h)
    BY CountsAreNat, OwedUnchanged DEF Owed
  <2>2. object[h] # None /\ count[h] >= 1 /\ count[h] >= Owed(h) + 0
    BY <1>2 DEF Serial, Rights, Covered
  <2>3. count'[h] >= Owed(h)' + 0 /\ count'[h] >= 1
    BY <1>1, <2>1, <2>2
  <2> QED
    BY <1>2, <2>3 DEF Covered
<1>3. /\ \A t \in Threads : \A right \in open'[t] : object'[right[1]] = right[2]
      /\ \A t \in Threads : \A o \in pointers'[t] : object'[cell'[o]] = o
  BY DEF Serial, Rights
<1> QED
  BY <1>2, <1>3 DEF Rights

LEMMA NamesKept ==
  ASSUME Serial, UNCHANGED <<object, cell, names, name, created>>
  PROVE  NamesGiven'
BY DEF Serial, NamesGiven, IsFirst

LEMMA FirstKept ==
  ASSUME Serial, UNCHANGED <<handles, cell>>
  PROVE  CellFirst'
BY DEF Serial, CellFirst

\* A step that only moves a call.
LEMMA SerialQuiet ==
  ASSUME Inv, Serial, NEW t \in Threads, NEW c, Becomes(t, c),
         \A s \in Threads \ {t} : call[s].at = "idle",
         UNCHANGED <<object, count, handles, cell, names, name, created, open, pointers>>,
         InCall(c)
  PROVE  Serial'
<1>1. CellFirst' /\ Rights' /\ NamesGiven'
  BY FirstKept, RightsKept, NamesKept
<1>2. InCall(c)'
  BY DEF InCall, Covered, Owed, IsFirst, Opened, Openers, Held, Holders
<1> QED
  BY <1>1, <1>2, SerialStep

-----------------------------------------------------------------------------
(* The steps of serial calls that leave the table alone.                   *)

\* The record of a call that goes on with its object.
LEMMA NextSerial ==
  ASSUME Inv, Serial, NEW t \in Threads, NEW p, NEW h
  PROVE  LET c == [call[t] EXCEPT !.at = p, !.handle = h]
         IN  /\ c.at = p /\ c.handle = h /\ c.object = call[t].object
             /\ c.name = call[t].name /\ c.source = None
<1>1. call[t] \in CallType /\ call[t].source = None
  BY DEF Inv, Calls, Serial, InCall
<1> QED
  BY <1>1 DEF CallType

LEMMA CreateUnnamedSerial ==
  ASSUME Inv, Serial, mode = "serial", NEW t \in Threads, CreateUnnamed(t)
  PROVE  Serial'
<1> DEFINE c == [call[t] EXCEPT !.at = "create", !.handle = None]
<1>1. \A s \in Threads \ {t} : call[s].at = "idle"
  BY OthersIdle DEF CreateUnnamed
<1>2. c.at = "create" /\ c.source = None
  BY NextSerial
<1>3. Becomes(t, c)
  BY DEF CreateUnnamed, Goto
<1>4. InCall(c)
  BY <1>2 DEF InCall
<1>5. UNCHANGED <<object, count, handles, cell, names, name, created, open, pointers>>
  BY DEF CreateUnnamed, tableVars, objectVars, titleVars
<1> HIDE DEF c
<1> QED
  BY <1>1, <1>3, <1>4, <1>5, SerialQuiet

LEMMA CreateNewNameSerial ==
  ASSUME Inv, Serial, mode = "serial", NEW t \in Threads, NEW n \in Names, CreateNewName(t, n)
  PROVE  Serial'
<1> DEFINE c == [Idle EXCEPT !.at = "create", !.name = n]
<1>1. \A s \in Threads \ {t} : call[s].at = "idle"
  BY OthersIdle DEF CreateNewName
<1>2. InCall(c)
  BY DEF InCall, Idle
<1>3. Becomes(t, c)
  BY DEF CreateNewName
<1>4. UNCHANGED <<object, count, handles, cell, names, name, created, open, pointers>>
  BY DEF CreateNewName, tableVars, objectVars, titleVars
<1> HIDE DEF c
<1> QED
  BY <1>1, <1>2, <1>3, <1>4, SerialQuiet

LEMMA DropSerial ==
  ASSUME Inv, Serial, mode = "serial", NEW t \in Threads, Drop(t)
  PROVE  Serial'
<1>1. call[t].at # "idle"
  BY DEF Drop, At
<1>2. \A s \in Threads \ {t} : call[s].at = "idle"
  BY <1>1, OthersIdle
<1>3. Becomes(t, Idle)
  BY DEF Drop, End, Serial, InCall
<1>4. InCall(Idle)
  BY DEF InCall, Idle
<1>5. UNCHANGED <<object, count, handles, cell, names, name, created, open, pointers>>
  BY DEF Drop, tableVars, titleVars
<1> QED
  BY <1>2, <1>3, <1>4, <1>5, SerialQuiet

\* A lookup through an entry whose object has a first handle.
LEMMA LookupSerial ==
  ASSUME Inv, Serial, NEW t \in Threads, NEW h \in Handles, NEW place,
         LookupObject(t, h, place, None), \A s \in Threads \ {t} : call[s].at = "idle",
         \/ place \in {"add", "refer"}
         \/ place = "release" /\ IsFirst(h) /\ Covered(h, 1) /\ count[h] >= 2,
         UNCHANGED <<object, count, handles, cell, names, name, created, open, pointers>>
  PROVE  Serial'
<1> DEFINE c == [Idle EXCEPT !.at = place, !.object = object[h], !.source = None]
<1>1. c.at = place /\ c.object = object[h] /\ c.source = None
  BY DEF Idle
<1>2. Becomes(t, c) /\ object[h] # None
  BY DEF LookupObject
<1> HIDE DEF c
<1>3. object[cell[object[h]]] = object[h]
  BY <1>2, FirstEntry DEF Inv, Serial
<1>4. InCall(c)
  BY <1>1, <1>3 DEF InCall, IsFirst
<1> QED
  BY <1>2, <1>4, SerialQuiet

LEMMA LookUpNamedSerial ==
  ASSUME Inv, Serial, mode = "serial", NEW t \in Threads, LookUpNamed(t)
  PROVE  Serial'
<1> DEFINE h == call[t].handle
<1>1. At(t, "lookup") /\ call[t].at # "idle"
  BY DEF LookUpNamed, At
<1>2. \A s \in Threads \ {t} : call[s].at = "idle"
  BY <1>1, OthersIdle
<1>3. h \in Handles
  BY <1>1 DEF Inv, Calls, CallOK, At
<1>4. IsFirst(h) /\ Covered(h, 1) /\ count[h] >= 2
  BY <1>1 DEF Serial, InCall, At
<1>5. LookupObject(t, h, "release", None)
  BY <1>4 DEF LookUpNamed, Covered
<1>6. UNCHANGED <<object, count, handles, cell, names, name, created, open, pointers>>
  BY DEF LookUpNamed, tableVars, titleVars
<1> QED
  BY <1>2, <1>3, <1>4, <1>5, <1>6, LookupSerial

LEMMA ReferenceSerial ==
  ASSUME Inv, Serial, mode = "serial", NEW t \in Threads, NEW h \in Handles, NEW o,
         ObReferenceObjectByHandle(t, h, o)
  PROVE  Serial'
<1>1. \A s \in Threads \ {t} : call[s].at = "idle"
  BY OthersIdle DEF ObReferenceObjectByHandle
<1>2. LookupObject(t, h, "refer", None)
  BY DEF ObReferenceObjectByHandle
<1>3. UNCHANGED <<object, count, handles, cell, names, name, created, open, pointers>>
  BY DEF ObReferenceObjectByHandle, tableVars, titleVars
<1> QED
  BY <1>1, <1>2, <1>3, LookupSerial

LEMMA DuplicateSerial ==
  ASSUME Inv, Serial, mode = "serial", NEW t \in Threads, NEW h \in Handles, NEW o, NEW source,
         NtDuplicateObject(t, h, o, source)
  PROVE  Serial'
<1>1. \A s \in Threads \ {t} : call[s].at = "idle"
  BY OthersIdle DEF NtDuplicateObject
<1>2. LookupObject(t, h, "add", None)
  BY DEF NtDuplicateObject
<1>3. UNCHANGED <<object, count, handles, cell, names, name, created, open, pointers>>
  BY DEF NtDuplicateObject, tableVars, titleVars
<1> QED
  BY <1>1, <1>2, <1>3, LookupSerial

LEMMA ReadHandleSerial ==
  ASSUME Inv, Serial, mode = "serial", NEW t \in Threads, ReadHandle(t)
  PROVE  Serial'
<1>1. PICK step \in {<<"release", "releasing">>, <<"retain", "retaining">>,
                     <<"refer", "referring">>, <<"derefer", "dereferring">>} :
        /\ At(t, step[1])
        /\ Becomes(t, [call[t] EXCEPT !.at = step[2], !.handle = cell[call[t].object]])
  BY DEF ReadHandle
<1> DEFINE c == [call[t] EXCEPT !.at = step[2], !.handle = cell[call[t].object]]
<1>2. /\ c.at = step[2] /\ c.handle = cell[call[t].object] /\ c.object = call[t].object
      /\ c.source = None
  BY NextSerial
<1>3. call[t].at = step[1] /\ call[t].at # "idle"
  BY <1>1 DEF At
<1>4. \A s \in Threads \ {t} : call[s].at = "idle"
  BY <1>3, OthersIdle
<1>5. Becomes(t, c)
  BY <1>1
<1> HIDE DEF c
<1>6. InCall(c)
  <2>1. InCall(call[t])
    BY DEF Serial
  <2>2. CASE call[t].at = "release" /\ c.at = "releasing"
    BY <1>2, <2>1, <2>2 DEF InCall
  <2>3. CASE call[t].at = "retain" /\ c.at = "retaining"
    BY <1>2, <2>1, <2>3 DEF InCall
  <2>4. CASE call[t].at = "refer" /\ c.at = "referring"
    BY <1>2, <2>1, <2>4 DEF InCall
  <2>5. CASE call[t].at = "derefer" /\ c.at = "dereferring"
    BY <1>2, <2>1, <2>5 DEF InCall
  <2> QED
    BY <1>2, <1>3, <2>2, <2>3, <2>4, <2>5
<1>7. UNCHANGED <<object, count, handles, cell, names, name, created, open, pointers>>
  BY DEF ReadHandle, tableVars, objectVars, titleVars
<1> QED
  BY <1>4, <1>5, <1>6, <1>7, SerialQuiet

-----------------------------------------------------------------------------
(* Serial calls that count a handle up, or hand it to the title.           *)

\* One more on a first handle.
LEMMA CountUp ==
  ASSUME Inv, NEW h \in Handles, RetainHandle(h)
  PROVE  /\ count' = [count EXCEPT ![h] = count[h] + 1]
         /\ count[h] \in Int /\ count'[h] = count[h] + 1
         /\ \A g \in Handles \ {h} : count'[g] = count[g]
<1>1. count \in [Handles -> Int]
  BY DEF Inv, Table
<1>2. count' = [count EXCEPT ![h] = count[h] + 1]
  BY DEF RetainHandle
<1> QED
  BY <1>1, <1>2

\* The handle under a name is the first one of its object.
LEMMA NamedHandle ==
  ASSUME Inv, Serial, NEW n \in Names, names[n] # None
  PROVE  /\ names[n] \in Handles /\ object[names[n]] # None
         /\ cell[object[names[n]]] = names[n]
         /\ RetainByName(n) => RetainHandle(names[n])
<1>1. names[n] \in Handles
  BY DEF Inv, Table
<1>2. object[names[n]] # None /\ cell[object[names[n]]] = names[n]
  BY DEF Serial, NamesGiven, IsFirst
<1> QED
  BY <1>1, <1>2 DEF RetainByName

LEMMA CreateKnownNameSerial ==
  ASSUME Inv, Serial, mode = "serial", NEW t \in Threads, NEW n \in Names, CreateKnownName(t, n)
  PROVE  Serial'
<1>0. PICK h, c : h = names[n] /\ c = [Idle EXCEPT !.at = "lookup", !.name = n, !.handle = h]
  OBVIOUS
<1>1. \A s \in Threads \ {t} : call[s].at = "idle"
  BY OthersIdle DEF CreateKnownName
<1>2. h \in Handles /\ object[h] # None /\ cell[object[h]] = h /\ RetainHandle(h)
  BY <1>0, NamedHandle DEF CreateKnownName
<1>3. c.at = "lookup" /\ c.handle = h /\ c.source = None
  BY <1>0 DEF Idle
<1>4. UNCHANGED <<object, handles, cell, names, name, created, open, pointers>>
  BY DEF CreateKnownName, objectVars, titleVars
<1>5. Becomes(t, c)
  BY <1>0 DEF CreateKnownName
<1>7. CellFirst' /\ Rights' /\ NamesGiven'
  BY <1>2, <1>4, CountUp, FirstKept, RightsKept, NamesKept
<1>8. InCall(c)'
  <2>1. count[h] >= 1 /\ count[h] >= Owed(h) + 0
    BY <1>2 DEF Serial, Rights, Covered
  <2>2. Owed(h) \in Nat /\ count[h] \in Int /\ count'[h] = count[h] + 1
    BY <1>2, CountUp, CountsAreNat DEF Owed
  <2>3. count'[h] >= 2 /\ count'[h] >= Owed(h) + 1
    BY <2>1, <2>2
  <2>4. Owed(h)' = Owed(h) /\ IsFirst(h)' = IsFirst(h)
    BY <1>4, OwedUnchanged
  <2>5. Covered(h, 1)' /\ IsFirst(h)'
    BY <1>2, <1>4, <2>3, <2>4 DEF Covered, IsFirst
  <2> QED
    BY <1>3, <1>4, <2>3, <2>5 DEF InCall
<1> QED
  BY <1>1, <1>5, <1>7, <1>8, SerialStep

LEMMA CallPlace ==
  ASSUME Inv, Serial, mode = "serial", NEW t \in Threads, NEW place, At(t, place), place # "idle"
  PROVE  \A s \in Threads \ {t} : call[s].at = "idle"
<1>1. call[t].at # "idle"
  BY DEF At
<1> QED
  BY <1>1, OthersIdle

\* The object of a call that is past its lookup, and its first handle.
LEMMA CallObject ==
  ASSUME Inv, Serial, NEW t \in Threads,
         call[t].at \notin {"idle", "lookup", "create", "add", "drop", "close"}
  PROVE  LET o == call[t].object
         IN  /\ o \in 1..created /\ o \in Objects
             /\ cell[o] \in Handles /\ object[cell[o]] = o
<1> DEFINE o == call[t].object
<1>1. o \in 1..created
  BY DEF Inv, Calls, CallOK
<1>2. created \in 0..MaxObjects /\ cell[o] \in Handles
  BY <1>1 DEF Inv, Table
<1>3. object[cell[o]] = o
  BY DEF Serial, InCall
<1> HIDE DEF o
<1>4. o \in Objects
  BY <1>1, <1>2, ObjectTableAssumption DEF Objects
<1> QED
  BY <1>1, <1>2, <1>3, <1>4 DEF o

LEMMA RetainNamedSerial ==
  ASSUME Inv, Serial, mode = "serial", NEW t \in Threads, RetainNamed(t)
  PROVE  Serial'
<1>0. PICK o, c : o = call[t].object /\ c = [call[t] EXCEPT !.at = "return", !.handle = None]
  OBVIOUS
<1>1. At(t, "retaining") /\ call[t].at = "retaining"
  BY DEF RetainNamed, At
<1>2. \A s \in Threads \ {t} : call[s].at = "idle"
  BY <1>1, CallPlace
<1>3. PICK h \in Handles : h = cell[o] /\ object[h] = o /\ o \in Objects
  BY <1>0, <1>1, CallObject
<1>4. RetainHandle(h)
  BY <1>0, <1>1, <1>3 DEF RetainNamed, Serial, InCall
<1>5. c.at = "return" /\ c.object = o /\ c.source = None
  BY <1>0, NextSerial
<1>6. UNCHANGED <<object, handles, cell, names, name, created, open, pointers>>
  BY DEF RetainNamed, objectVars, titleVars
<1>7. Becomes(t, c)
  BY <1>0 DEF RetainNamed, Goto
<1>8. CellFirst' /\ Rights' /\ NamesGiven'
  BY <1>4, <1>6, CountUp, FirstKept, RightsKept, NamesKept
<1>9. Covered(h, 1)'
  <2>0. object[h] # None
    BY <1>3, ObjectTableAssumption DEF Objects
  <2>1. count[h] >= Owed(h) + 0
    BY <2>0 DEF Serial, Rights, Covered
  <2>2. Owed(h) \in Nat /\ count[h] \in Int /\ count'[h] = count[h] + 1
    BY <1>4, CountUp, CountsAreNat DEF Owed
  <2>3. count'[h] >= Owed(h)' + 1
    BY <1>6, <2>1, <2>2, OwedUnchanged
  <2> QED
    BY <1>6, <2>0, <2>3 DEF Covered
<1>10. InCall(c)'
  <2>1. cell'[c.object] = h /\ object'[h] = c.object
    BY <1>3, <1>5, <1>6
  <2> QED
    BY <1>5, <1>9, <2>1 DEF InCall
<1> QED
  BY <1>2, <1>7, <1>8, <1>10, SerialStep

\* What handles are owed after a handle is opened, and after an object is referenced.
LEMMA OwedOpened ==
  ASSUME NEW t \in Threads, NEW h, NEW o, object[h] = o, UNCHANGED <<object, cell, pointers>>,
         \A s \in Threads : \A g, p :
           <<g, p>> \in open'[s] <=> <<g, p>> \in open[s] \/ (s = t /\ g = h /\ p = o)
  PROVE  \A g : /\ Owed(g) \in Nat /\ Owed(g)' \in Nat
                /\ Owed(g)' <= Owed(g) + (IF g = h THEN 1 ELSE 0)
<1>1. SUFFICES ASSUME NEW g
               PROVE  /\ Owed(g) \in Nat /\ Owed(g)' \in Nat
                      /\ Owed(g)' <= Owed(g) + (IF g = h THEN 1 ELSE 0)
  OBVIOUS
<1>2. PICK p : p = object[g]
  OBVIOUS
<1>3. IF g = h /\ p = o THEN Opened(g, p)' <= Opened(g, p) + 1
                        ELSE Opened(g, p)' = Opened(g, p)
  BY OpenOne
<1>4. Held(p)' = Held(p)
  BY DEF Held, Holders
<1>5. Owed(g) = Opened(g, p) + (IF g = cell[p] THEN Held(p) ELSE 0)
  BY <1>2 DEF Owed, IsFirst
<1>6. Owed(g)' = Opened(g, p)' + (IF g = cell[p] THEN Held(p)' ELSE 0)
  <2>1. object'[g] = p /\ cell' = cell
    BY <1>2
  <2> QED
    BY <2>1 DEF Owed, IsFirst, Opened, Openers, Held, Holders
<1>7. Opened(g, p) \in Nat /\ Opened(g, p)' \in Nat /\ Held(p) \in Nat /\ Held(p)' \in Nat
  BY CountsAreNat
<1> QED
  BY <1>2, <1>3, <1>4, <1>5, <1>6, <1>7

LEMMA OwedReferred ==
  ASSUME NEW t \in Threads, NEW o, UNCHANGED <<object, cell, open>>,
         pointers'[t] = pointers[t] \cup {o}, \A s \in Threads \ {t} : pointers'[s] = pointers[s]
  PROVE  \A g : /\ Owed(g) \in Nat /\ Owed(g)' \in Nat
                /\ Owed(g)' <= Owed(g) + (IF g = cell[o] THEN 1 ELSE 0)
<1>1. SUFFICES ASSUME NEW g
               PROVE  /\ Owed(g) \in Nat /\ Owed(g)' \in Nat
                      /\ Owed(g)' <= Owed(g) + (IF g = cell[o] THEN 1 ELSE 0)
  OBVIOUS
<1>2. PICK p : p = object[g]
  OBVIOUS
<1>3. /\ p # o => Held(p)' = Held(p)
      /\ Held(o)' <= Held(o) + 1
  BY ReferOne
<1>4. Opened(g, p)' = Opened(g, p)
  BY DEF Opened, Openers
<1>5. Owed(g) = Opened(g, p) + (IF g = cell[p] THEN Held(p) ELSE 0)
  BY <1>2 DEF Owed, IsFirst
<1>6. Owed(g)' = Opened(g, p)' + (IF g = cell[p] THEN Held(p)' ELSE 0)
  <2>1. object'[g] = p /\ cell' = cell
    BY <1>2
  <2> QED
    BY <2>1 DEF Owed, IsFirst, Opened, Openers, Held, Holders
<1>7. Opened(g, p) \in Nat /\ Opened(g, p)' \in Nat /\ Held(p) \in Nat /\ Held(p)' \in Nat
  BY CountsAreNat
<1> QED
  BY <1>2, <1>3, <1>4, <1>5, <1>6, <1>7

\* A first handle whose count covers one more is opened, or its object referenced.
LEMMA RightsGained ==
  ASSUME Inv, Serial, NEW h \in Handles, NEW o \in Objects, object[h] = o, h = cell[o],
         \/ count' = count /\ Covered(h, 1)
         \/ RetainHandle(h),
         UNCHANGED <<object, cell>>,
         \A g : /\ Owed(g) \in Nat /\ Owed(g)' \in Nat
                /\ Owed(g)' <= Owed(g) + (IF g = h THEN 1 ELSE 0),
         \A s \in Threads : \A right \in open'[s] : right \in open[s] \/ right = <<h, o>>,
         \A s \in Threads : \A p \in pointers'[s] : p \in pointers[s] \/ p = o
  PROVE  Rights'
<1>1. /\ \A g \in Handles : count[g] \in Int /\ count'[g] \in Int /\ count'[g] >= count[g]
      /\ object[h] # None
  <2>1. count \in [Handles -> Int] /\ object[h] # None
    BY ObjectTableAssumption DEF Inv, Table, Objects
  <2> QED
    BY <2>1, CountUp
<1>2. count'[h] >= Owed(h) + 1
  <2>1. CASE count' = count /\ Covered(h, 1)
    BY <2>1 DEF Covered
  <2>2. CASE RetainHandle(h)
    <3>1. count[h] >= Owed(h) + 0
      BY <1>1 DEF Serial, Rights, Covered
    <3>2. count'[h] = count[h] + 1
      BY <2>2, CountUp
    <3> QED
      BY <1>1, <3>1, <3>2
  <2> QED
    BY <2>1, <2>2
<1>3. \A g \in Handles : object'[g] # None => count'[g] >= 1 /\ Covered(g, 0)'
  <2>1. SUFFICES ASSUME NEW g \in Handles, object'[g] # None
                 PROVE  count'[g] >= 1 /\ Covered(g, 0)'
    OBVIOUS
  <2>2. object[g] # None /\ count[g] >= 1 /\ count[g] >= Owed(g) + 0
    BY <2>1 DEF Serial, Rights, Covered
  <2>3. Owed(g) \in Nat /\ Owed(g)' \in Nat /\ Owed(g)' <= Owed(g) + (IF g = h THEN 1 ELSE 0)
    OBVIOUS
  <2>4. count'[g] >= Owed(g)' + 0 /\ count'[g] >= 1
    BY <1>1, <1>2, <2>2, <2>3
  <2> QED
    BY <2>1, <2>4 DEF Covered
<1>4. \A s \in Threads : \A right \in open'[s] : object'[right[1]] = right[2]
  <2>1. SUFFICES ASSUME NEW s \in Threads, NEW right \in open'[s]
                 PROVE  object[right[1]] = right[2]
    OBVIOUS
  <2>2. right \in open[s] \/ right = <<h, o>>
    OBVIOUS
  <2> QED
    BY <2>2 DEF Serial, Rights
<1>5. \A s \in Threads : \A p \in pointers'[s] : object'[cell'[p]] = p
  BY DEF Serial, Rights
<1> QED
  BY <1>3, <1>4, <1>5 DEF Rights

\* A call that ends gives the first handle of its object to the title.
LEMMA ReturnSerial ==
  ASSUME Inv, Serial, mode = "serial", NEW t \in Threads, call[t].at \in {"return", "created"}, End(t),
         open' = [open EXCEPT ![t] = open[t] \cup {<<cell[call[t].object], call[t].object>>}],
         UNCHANGED <<object, count, handles, cell, names, name, created, pointers>>
  PROVE  Serial'
<1>1. \A s \in Threads \ {t} : call[s].at = "idle"
  BY OthersIdle
<1>2. PICK o \in Objects, h \in Handles : o = call[t].object /\ h = cell[o] /\ object[h] = o
  BY CallObject
<1>3. Covered(h, 1)
  BY <1>2 DEF Serial, InCall
<1>4. \A s \in Threads : \A g, p :
        <<g, p>> \in open'[s] <=> <<g, p>> \in open[s] \/ (s = t /\ g = h /\ p = o)
  BY <1>2 DEF Inv, Title
<1>5. \A g : /\ Owed(g) \in Nat /\ Owed(g)' \in Nat
             /\ Owed(g)' <= Owed(g) + (IF g = h THEN 1 ELSE 0)
  BY <1>2, <1>4, OwedOpened
<1>6. \A s \in Threads : \A right \in open'[s] : right \in open[s] \/ right = <<h, o>>
  BY <1>2 DEF Inv, Title
<1>7. Rights'
  BY <1>2, <1>3, <1>5, <1>6, RightsGained
<1>8. InCall(Idle)'
  BY DEF InCall, Idle
<1>9. Becomes(t, Idle) /\ CellFirst' /\ NamesGiven'
  BY FirstKept, NamesKept DEF End
<1> QED
  BY <1>1, <1>7, <1>8, <1>9, SerialStep

LEMMA ReturnNamedSerial ==
  ASSUME Inv, Serial, mode = "serial", NEW t \in Threads, ReturnNamed(t)
  PROVE  Serial'
<1>1. /\ call[t].at = "return" /\ End(t)
      /\ open' = [open EXCEPT ![t] = open[t] \cup {<<cell[call[t].object], call[t].object>>}]
      /\ UNCHANGED <<object, count, handles, cell, names, name, created, pointers>>
  BY DEF ReturnNamed, At, tableVars
<1> QED
  BY <1>1, ReturnSerial

LEMMA ReturnCreatedSerial ==
  ASSUME Inv, Serial, mode = "serial", NEW t \in Threads, ReturnCreated(t)
  PROVE  Serial'
<1>1. /\ call[t].at = "created" /\ End(t)
      /\ open' = [open EXCEPT ![t] = open[t] \cup {<<cell[call[t].object], call[t].object>>}]
      /\ UNCHANGED <<object, count, handles, cell, names, name, created, pointers>>
  BY DEF ReturnCreated, At, tableVars
<1> QED
  BY <1>1, ReturnSerial

LEMMA ObOpenSerial ==
  ASSUME Inv, Serial, mode = "serial", NEW t \in Threads, NEW n \in Names, ObOpenObjectByName(t, n)
  PROVE  Serial'
<1>1. \A s \in Threads \ {t} : call[s].at = "idle"
  BY OthersIdle DEF ObOpenObjectByName
<1>2. /\ names[n] \in Handles /\ object[names[n]] # None /\ cell[object[names[n]]] = names[n]
      /\ RetainHandle(names[n])
  BY NamedHandle DEF ObOpenObjectByName
<1>3. PICK h \in Handles, o \in Objects : h = names[n] /\ o = object[h]
  BY <1>2, KnownObject DEF Inv
<1>4. h = cell[o] /\ RetainHandle(h)
  BY <1>2, <1>3
<1>5. /\ open' = [open EXCEPT ![t] = open[t] \cup {<<h, o>>}]
      /\ UNCHANGED <<object, handles, cell, names, name, created, pointers, call>>
  BY <1>2, <1>3 DEF ObOpenObjectByName, objectVars
<1>6. \A s \in Threads : \A g, p :
        <<g, p>> \in open'[s] <=> <<g, p>> \in open[s] \/ (s = t /\ g = h /\ p = o)
  BY <1>5 DEF Inv, Title
<1>7. \A g : /\ Owed(g) \in Nat /\ Owed(g)' \in Nat
             /\ Owed(g)' <= Owed(g) + (IF g = h THEN 1 ELSE 0)
  BY <1>3, <1>5, <1>6, OwedOpened
<1>8. \A s \in Threads : \A right \in open'[s] : right \in open[s] \/ right = <<h, o>>
  BY <1>5 DEF Inv, Title
<1>9. Rights'
  BY <1>3, <1>4, <1>5, <1>7, <1>8, RightsGained
<1>10. call[t].at = "idle"
  BY DEF ObOpenObjectByName, Begin
<1>11. CellFirst' /\ NamesGiven'
  BY <1>5, FirstKept, NamesKept
<1> QED
  BY <1>1, <1>5, <1>9, <1>10, <1>11, SerialNoCall

LEMMA ReferSerial ==
  ASSUME Inv, Serial, mode = "serial", NEW t \in Threads, Refer(t)
  PROVE  Serial'
<1>1. call[t].at = "referring"
  BY DEF Refer, At
<1>2. \A s \in Threads \ {t} : call[s].at = "idle"
  BY <1>1, OthersIdle
<1>3. PICK o \in Objects, h \in Handles : o = call[t].object /\ h = cell[o] /\ object[h] = o
  BY <1>1, CallObject
<1>4. RetainHandle(h)
  BY <1>1, <1>3 DEF Refer, Serial, InCall
<1>5. /\ pointers' = [pointers EXCEPT ![t] = pointers[t] \cup {o}]
      /\ UNCHANGED <<object, handles, cell, names, name, created, open>>
  BY <1>3 DEF Refer, objectVars
<1>6. pointers'[t] = pointers[t] \cup {o} /\ \A s \in Threads \ {t} : pointers'[s] = pointers[s]
  BY <1>5 DEF Inv, Title
<1>7. \A g : /\ Owed(g) \in Nat /\ Owed(g)' \in Nat
             /\ Owed(g)' <= Owed(g) + (IF g = h THEN 1 ELSE 0)
  BY <1>3, <1>5, <1>6, OwedReferred
<1>8. \A s \in Threads : \A p \in pointers'[s] : p \in pointers[s] \/ p = o
  BY <1>6
<1>9. Rights'
  BY <1>3, <1>4, <1>5, <1>7, <1>8, RightsGained
<1>10. PICK c : c = [call[t] EXCEPT !.at = "drop", !.handle = None]
  OBVIOUS
<1>11. c.at = "drop" /\ c.source = None
  BY <1>10, NextSerial
<1>12. InCall(c)'
  BY <1>11 DEF InCall
<1>13. Becomes(t, c) /\ CellFirst' /\ NamesGiven'
  BY <1>5, <1>10, FirstKept, NamesKept DEF Refer, Goto
<1> QED
  BY <1>2, <1>9, <1>12, <1>13, SerialStep

-----------------------------------------------------------------------------
(* Serial calls that name an object, or let go of one.                     *)

\* A title whose calls do not overlap never closes the source of a duplicate.
LEMMA CloseSourceSerial ==
  ASSUME Inv, Serial, NEW t \in Threads, CloseSource(t)
  PROVE  FALSE
<1>1. call[t].at = "close" /\ call[t].source = None
  BY DEF CloseSource, At, Serial, InCall
<1>2. call[t].source \in Handles
  BY <1>1 DEF Inv, Calls, CallOK
<1> QED
  BY <1>1, <1>2, ObjectTableAssumption

LEMMA SetAttributesSerial ==
  ASSUME Inv, Serial, mode = "serial", NEW t \in Threads, SetAttributes(t)
  PROVE  Serial'
<1>1. call[t].at = "name"
  BY DEF SetAttributes, At
<1>2. \A s \in Threads \ {t} : call[s].at = "idle"
  BY <1>1, OthersIdle
<1>3. PICK o \in Objects, h \in Handles :
        o = call[t].object /\ h = cell[o] /\ object[h] = o /\ o \in 1..created
  BY <1>1, CallObject
<1>4. PICK n \in Names : n = call[t].name
  BY <1>1 DEF Inv, Calls, CallOK
<1>5. name[o] = None /\ Covered(h, 1)
  BY <1>1, <1>3 DEF Serial, InCall
<1>6. /\ name' = [name EXCEPT ![o] = n]
      /\ names' = [names EXCEPT ![n] = IF names[n] = None THEN h ELSE names[n]]
      /\ UNCHANGED <<object, count, created, handles, cell, open, pointers>>
  BY <1>3, <1>4 DEF SetAttributes, tableVars, titleVars
<1>7. /\ name'[o] = n /\ \A p \in Objects \ {o} : name'[p] = name[p]
      /\ names'[n] = IF names[n] = None THEN h ELSE names[n]
      /\ \A m \in Names \ {n} : names'[m] = names[m]
  <2>1. name \in [Objects -> Names \cup {None}] /\ names \in [Names -> Handles \cup {None}]
    BY DEF Inv, Table, Headers
  <2> QED
    BY <1>6, <2>1
<1>8. NamesGiven'
  <2>1. ASSUME NEW m \in Names, names'[m] # None
        PROVE  \E g \in Handles : /\ names'[m] = g /\ object[g] # None /\ cell[object[g]] = g
                                  /\ name'[object[g]] = m
    <3>1. CASE m = n /\ names[n] = None
      <4>1. names'[m] = h /\ name'[o] = m /\ o # None
        BY <1>7, <3>1, ObjectTableAssumption DEF Objects
      <4> QED
        BY <1>3, <4>1
    <3>2. CASE m # n \/ names[n] # None
      <4>1. names'[m] = names[m] /\ names[m] # None
        BY <1>7, <2>1, <3>2
      <4>2. PICK g \in Handles : g = names[m]
        BY <4>1 DEF Inv, Table
      <4>3. object[g] # None /\ g = cell[object[g]] /\ name[object[g]] = m
        BY <4>1, <4>2 DEF Serial, NamesGiven, IsFirst
      <4>4. object[g] \in Objects
        BY <4>3, KnownObject DEF Inv
      <4>5. object[g] # o
        BY <1>5, <4>3, ObjectTableAssumption
      <4>6. name'[object[g]] = m
        BY <1>7, <4>3, <4>4, <4>5
      <4> QED
        BY <4>1, <4>2, <4>3, <4>6
    <3> QED
      BY <3>1, <3>2
  <2>2. \A p \in Objects : name'[p] # None => p <= created'
    <3>1. \A p \in Objects : name[p] # None => p <= created
      BY DEF Serial, NamesGiven
    <3>2. o <= created
      BY <1>3
    <3> QED
      BY <1>6, <1>7, <3>1, <3>2
  <2>3. \A m \in Names : names'[m] # None =>
          object'[names'[m]] # None /\ IsFirst(names[m])' /\ name'[object'[names'[m]]] = m
    BY <1>6, <2>1 DEF IsFirst
  <2> QED
    BY <2>2, <2>3 DEF NamesGiven
<1>9. CellFirst' /\ Rights'
  BY <1>6, FirstKept, RightsKept
<1>10. PICK c : c = [call[t] EXCEPT !.at = "created", !.handle = None]
  OBVIOUS
<1>11. c.at = "created" /\ c.source = None /\ c.object = o
  BY <1>3, <1>10, NextSerial
<1>12. InCall(c)'
  <2>1. Covered(h, 1)'
    BY <1>5, <1>6 DEF Covered, Owed, IsFirst, Opened, Openers, Held, Holders
  <2>2. cell'[c.object] = h /\ object'[h] = c.object
    BY <1>3, <1>6, <1>11
  <2> QED
    BY <1>11, <2>1, <2>2 DEF InCall
<1>13. Becomes(t, c)
  BY <1>10 DEF SetAttributes, Goto
<1> QED
  BY <1>2, <1>8, <1>9, <1>12, <1>13, SerialStep

\* The counts cover what is left of the rights.
LEMMA RightsStay ==
  ASSUME Serial, UNCHANGED <<object, cell>>,
         \A g \in Handles : object[g] # None => count'[g] >= 1 /\ count'[g] >= Owed(g)' + 0,
         \A s \in Threads : open'[s] \subseteq open[s] /\ pointers'[s] \subseteq pointers[s]
  PROVE  Rights'
<1>1. \A g \in Handles : object'[g] # None => count'[g] >= 1 /\ Covered(g, 0)'
  BY DEF Covered
<1>2. /\ \A s \in Threads : \A right \in open'[s] : object'[right[1]] = right[2]
      /\ \A s \in Threads : \A p \in pointers'[s] : object'[cell'[p]] = p
  BY DEF Serial, Rights
<1> QED
  BY <1>1, <1>2 DEF Rights

LEMMA OwedDereferred ==
  ASSUME NEW t \in Threads, NEW o \in pointers[t], UNCHANGED <<object, cell, open>>,
         pointers'[t] = pointers[t] \ {o}, \A s \in Threads \ {t} : pointers'[s] = pointers[s]
  PROVE  \A g : /\ Owed(g) \in Nat /\ Owed(g)' \in Nat
                /\ Owed(g)' = Owed(g) - (IF g = cell[o] /\ object[g] = o THEN 1 ELSE 0)
<1>1. SUFFICES ASSUME NEW g
               PROVE  /\ Owed(g) \in Nat /\ Owed(g)' \in Nat
                      /\ Owed(g)' = Owed(g) - (IF g = cell[o] /\ object[g] = o THEN 1 ELSE 0)
  OBVIOUS
<1>2. PICK p : p = object[g]
  OBVIOUS
<1>3. /\ p # o => Held(p)' = Held(p)
      /\ Held(o)' = Held(o) - 1
  BY DereferOne
<1>4. Opened(g, p)' = Opened(g, p)
  BY DEF Opened, Openers
<1>5. Owed(g) = Opened(g, p) + (IF g = cell[p] THEN Held(p) ELSE 0)
  BY <1>2 DEF Owed, IsFirst
<1>6. Owed(g)' = Opened(g, p)' + (IF g = cell[p] THEN Held(p)' ELSE 0)
  <2>1. object'[g] = p /\ cell' = cell
    BY <1>2
  <2> QED
    BY <2>1 DEF Owed, IsFirst, Opened, Openers, Held, Holders
<1>7. Opened(g, p) \in Nat /\ Opened(g, p)' \in Nat /\ Held(p) \in Nat /\ Held(p)' \in Nat
  BY CountsAreNat
<1> QED
  BY <1>2, <1>3, <1>4, <1>5, <1>6, <1>7

LEMMA ObDereferenceSerial ==
  ASSUME Inv, Serial, mode = "serial", NEW t \in Threads, NEW o, ObDereferenceObject(t, o)
  PROVE  Serial'
<1>1. \A s \in Threads \ {t} : call[s].at = "idle"
  BY OthersIdle DEF ObDereferenceObject
<1>2. o \in pointers[t] /\ o \in 1..created /\ object[cell[o]] = o
  BY DEF ObDereferenceObject, Inv, Title, Serial, Rights
<1>3. cell[o] \in Handles /\ header[o] \in Handles /\ o # None
  BY <1>2, ObjectTableAssumption DEF Inv, Table, Headers
<1>4. UNCHANGED <<object, count, handles, cell, name, names, created, open>>
  BY DEF ObDereferenceObject, tableVars
<1>5. pointers'[t] = pointers[t] \ {o} /\ \A s \in Threads \ {t} : pointers'[s] = pointers[s]
  BY DEF ObDereferenceObject, Inv, Title
<1>6. \A g : /\ Owed(g) \in Nat /\ Owed(g)' \in Nat
             /\ Owed(g)' = Owed(g) - (IF g = cell[o] /\ object[g] = o THEN 1 ELSE 0)
  BY <1>2, <1>4, <1>5, OwedDereferred
<1>7. \A g \in Handles : object[g] # None => count[g] >= 1 /\ count[g] >= Owed(g) + 0 /\ count[g] \in Int
  BY DEF Serial, Rights, Covered, Inv, Table
<1>8. Rights'
  <2>1. \A g \in Handles : object[g] # None => count'[g] >= 1 /\ count'[g] >= Owed(g)' + 0
    BY <1>4, <1>6, <1>7
  <2>2. \A s \in Threads : open'[s] \subseteq open[s] /\ pointers'[s] \subseteq pointers[s]
    BY <1>4, <1>5
  <2> QED
    BY <1>4, <2>1, <2>2, RightsStay
<1>9. CellFirst' /\ NamesGiven'
  BY <1>4, FirstKept, NamesKept
<1>10. CASE object[header[o]] = o
  <2>1. PICK c : c = [Idle EXCEPT !.at = "derefer", !.object = object[header[o]], !.source = None]
    OBVIOUS
  <2>2. Becomes(t, c)
    BY <1>10, <2>1 DEF ObDereferenceObject, LookupObject
  <2>3. c.at = "derefer" /\ c.object = o /\ c.source = None
    BY <1>10, <2>1 DEF Idle
  <2>4. Covered(cell[o], 1)'
    <3>1. PICK h \in Handles : h = cell[o] /\ object[h] = o /\ object[h] # None
      BY <1>2, <1>3
    <3>2. count[h] >= Owed(h)' + 1
      BY <1>6, <1>7, <3>1
    <3>3. Covered(h, 1)'
      BY <1>4, <3>1, <3>2 DEF Covered
    <3> QED
      BY <1>4, <3>1, <3>3
  <2>5. InCall(c)'
    BY <1>2, <1>4, <2>3, <2>4 DEF InCall
  <2> QED
    BY <1>1, <1>8, <1>9, <2>2, <2>5, SerialStep
<1>11. CASE object[header[o]] # o
  <2>1. call' = call /\ call[t].at = "idle"
    BY <1>11 DEF ObDereferenceObject, Begin
  <2> QED
    BY <1>1, <1>8, <1>9, <2>1, SerialNoCall
<1> QED
  BY <1>10, <1>11

\* LookupNamedObject gives back one of at least two.
LEMMA ReleaseNamedSerial ==
  ASSUME Inv, Serial, mode = "serial", NEW t \in Threads, ReleaseNamed(t)
  PROVE  Serial'
<1>1. call[t].at = "releasing"
  BY DEF ReleaseNamed, At
<1>2. \A s \in Threads \ {t} : call[s].at = "idle"
  BY <1>1, OthersIdle
<1>3. PICK o \in Objects, h \in Handles : o = call[t].object /\ h = cell[o] /\ object[h] = o
  BY <1>1, CallObject
<1>4. call[t].handle = h /\ count[h] >= 2 /\ count[h] >= Owed(h) + 1 /\ count[h] \in Int
  BY <1>1, <1>3 DEF Serial, InCall, Covered, Inv, Table
<1>5. /\ count' = [count EXCEPT ![h] = count[h] - 1]
      /\ UNCHANGED <<object, handles, cell, names, name, created, open, pointers>>
  <2>1. ReleaseHandle(h) /\ count[h] # 1
    BY <1>4 DEF ReleaseNamed
  <2> QED
    BY <2>1 DEF ReleaseHandle, ReleaseNamed, titleVars
<1>6. count'[h] = count[h] - 1 /\ \A g \in Handles \ {h} : count'[g] = count[g]
  BY <1>5 DEF Inv, Table
<1>7. Rights'
  <2>1. SUFFICES ASSUME NEW g \in Handles, object[g] # None
                 PROVE  count'[g] >= 1 /\ count'[g] >= Owed(g)' + 0
    BY <1>5, RightsStay
  <2>2. Owed(g)' = Owed(g) /\ Owed(g) \in Nat
    BY <1>5, OwedUnchanged, CountsAreNat DEF Owed
  <2>3. count[g] >= 1 /\ count[g] >= Owed(g) + 0
    BY <2>1 DEF Serial, Rights, Covered
  <2> QED
    BY <1>4, <1>6, <2>2, <2>3
<1>8. PICK c : c = [call[t] EXCEPT !.at = "retain", !.handle = None]
  OBVIOUS
<1>9. c.at = "retain" /\ c.source = None /\ c.object = o
  BY <1>3, <1>8, NextSerial
<1>10. InCall(c)'
  BY <1>3, <1>5, <1>9 DEF InCall
<1>11. Becomes(t, c) /\ CellFirst' /\ NamesGiven'
  BY <1>5, <1>8, FirstKept, NamesKept DEF ReleaseNamed, Goto
<1> QED
  BY <1>2, <1>7, <1>10, <1>11, SerialStep

-----------------------------------------------------------------------------
(* A right is given back: the entry may go with it.                        *)

LEMMA ReleaseSerial ==
  ASSUME Inv, Serial, NEW h \in Handles, NEW o \in Objects, object[h] = o, ReleaseHandle(h),
         \A g, p : g # h \/ p # o => Opened(g, p)' = Opened(g, p),
         count[h] >= Opened(h, o)' + (IF h = cell[o] THEN Held(o) ELSE 0) + 1,
         \A s \in Threads : open'[s] \subseteq open[s],
         UNCHANGED <<pointers, name, created>>
  PROVE  CellFirst' /\ Rights' /\ NamesGiven'
<1>0. object[h] # None /\ count \in [Handles -> Int]
  BY ObjectTableAssumption DEF Objects, Inv, Table
<1>1. Opened(h, o)' \in Nat /\ Held(o) \in Nat /\ Held(o)' = Held(o)
  BY CountsAreNat DEF Held, Holders
<1>2. /\ \A g \in Handles : object[g] # None => count[g] >= 1 /\ count[g] >= Owed(g) + 0
      /\ \A s \in Threads : \A right \in open[s] : object[right[1]] = right[2]
      /\ \A s \in Threads : \A p \in pointers[s] : object[cell[p]] = p
  BY DEF Serial, Rights, Covered
<1>3. CASE count[h] # 1
  <2>1. /\ count' = [count EXCEPT ![h] = count[h] - 1]
        /\ UNCHANGED <<object, handles, cell, names>>
    BY <1>3 DEF ReleaseHandle
  <2>2. count'[h] = count[h] - 1 /\ \A g \in Handles \ {h} : count'[g] = count[g]
    BY <1>0, <2>1
  <2>3. Rights'
    <3>1. SUFFICES ASSUME NEW g \in Handles, object[g] # None
                   PROVE  count'[g] >= 1 /\ count'[g] >= Owed(g)' + 0
      BY <2>1, RightsStay
    <3>2. PICK p : p = object[g]
      OBVIOUS
    <3>3. Owed(g) = Opened(g, p) + (IF g = cell[p] THEN Held(p) ELSE 0)
      BY <3>2 DEF Owed, IsFirst
    <3>4. Owed(g)' = Opened(g, p)' + (IF g = cell[p] THEN Held(p) ELSE 0)
      <4>1. object'[g] = p /\ cell' = cell
        BY <2>1, <3>2
      <4> QED
        BY <4>1 DEF Owed, IsFirst, Opened, Openers, Held, Holders
    <3>5. CASE g = h
      BY <1>0, <1>1, <1>2, <1>3, <2>2, <3>2, <3>4, <3>5
    <3>6. CASE g # h
      BY <1>2, <2>2, <3>1, <3>3, <3>4, <3>6
    <3> QED
      BY <3>5, <3>6
  <2> QED
    BY <2>1, <2>3, FirstKept, NamesKept
<1>4. CASE count[h] = 1
  <2>1. RemoveHandle(h)
    BY <1>0, <1>4 DEF ReleaseHandle
  <2>2. CellFirst' /\ \A p \in Objects : p # o \/ h # cell[o] => cell'[p] = cell[p]
    BY <1>0, <2>1, RemoveHandleFirst DEF Inv, Serial, IsFirst
  <2>3. /\ object'[h] = None /\ \A g \in Handles \ {h} : object'[g] = object[g] /\ count'[g] = count[g]
        /\ \A n \in Names : names'[n] = IF n = name[o] THEN None ELSE names[n]
    BY <2>1 DEF RemoveHandle, Inv, Table
  <2>4. Opened(h, o)' = 0 /\ (h = cell[o] => Held(o) = 0)
    BY <1>1, <1>4
  <2>5. /\ \A s \in Threads : <<h, o>> \notin open'[s]
        /\ h = cell[o] => \A s \in Threads : o \notin pointers[s]
    <3>1. IsFiniteSet(Threads)
      BY ObjectTableAssumption
    <3>2. IsFiniteSet(Openers(h, o)') /\ IsFiniteSet(Holders(o))
      BY <3>1, FS_Subset DEF Openers, Holders
    <3>3. Openers(h, o)' = {} /\ (h = cell[o] => Holders(o) = {})
      BY <2>4, <3>2, FS_EmptySet DEF Opened, Held
    <3> QED
      BY <3>3 DEF Openers, Holders
  <2>6. ASSUME NEW g \in Handles, object'[g] # None
        PROVE  count'[g] >= 1 /\ Covered(g, 0)'
    <3>1. g # h /\ object[g] # None /\ object'[g] = object[g] /\ count'[g] = count[g]
      BY <2>3, <2>6
    <3>2. PICK p \in Objects : p = object[g]
      BY <3>1, KnownObject DEF Inv
    <3>3. Owed(g) = Opened(g, p) + (IF g = cell[p] THEN Held(p) ELSE 0)
      BY <3>2 DEF Owed, IsFirst
    <3>4. Owed(g)' = Opened(g, p) + (IF g = cell'[p] THEN Held(p) ELSE 0)
      <4>1. object'[g] = p /\ Opened(g, p)' = Opened(g, p) /\ Held(p)' = Held(p)
        BY <3>1, <3>2 DEF Held, Holders
      <4>2. Owed(g)' = Opened(g, p)' + (IF g = cell'[p] THEN Held(p)' ELSE 0)
        BY <4>1 DEF Owed, IsFirst, Opened, Openers, Held, Holders
      <4> QED
        BY <4>1, <4>2
    <3>5. Opened(g, p) \in Nat /\ Held(p) \in Nat /\ (cell'[p] = cell[p] \/ Held(p) = 0)
      BY <2>2, <2>4, CountsAreNat
    <3>6. count'[g] >= 1 /\ count'[g] >= Owed(g)' + 0
      BY <1>2, <3>1, <3>3, <3>4, <3>5
    <3> QED
      BY <2>6, <3>6 DEF Covered
  <2>7. ASSUME NEW s \in Threads, NEW right \in open'[s]
        PROVE  object'[right[1]] = right[2]
    <3>1. right \in open[s] /\ right \in Handles \X (1..created)
      BY DEF Inv, Title
    <3>2. object[right[1]] = right[2]
      BY <1>2, <3>1
    <3>3. right[1] # h
      BY <2>5, <3>1, <3>2
    <3> QED
      BY <2>3, <3>1, <3>2, <3>3
  <2>8. ASSUME NEW s \in Threads, NEW p \in pointers'[s]
        PROVE  object'[cell'[p]] = p
    <3>1. p \in 1..created /\ p \in pointers[s] /\ object[cell[p]] = p
      BY <1>2 DEF Inv, Title
    <3>2. cell[p] \in Handles /\ created \in 0..MaxObjects
      BY <3>1 DEF Inv, Table
    <3>3. p \in Objects
      BY <3>1, <3>2, ObjectTableAssumption DEF Objects
    <3>4. cell[p] # h
      BY <2>5, <3>1
    <3>5. cell'[p] = cell[p]
      BY <2>2, <2>5, <3>1, <3>3
    <3> QED
      BY <2>3, <3>1, <3>2, <3>4, <3>5
  <2>9. Rights'
    BY <2>6, <2>7, <2>8 DEF Rights
  <2>10. NamesGiven'
    <3>1. ASSUME NEW n \in Names, names'[n] # None
          PROVE  object'[names'[n]] # None /\ IsFirst(names[n])' /\ name'[object'[names'[n]]] = n
      <4>1. n # name[o] /\ names'[n] = names[n] /\ names[n] # None
        BY <2>3, <3>1
      <4>2. PICK g \in Handles : g = names[n]
        BY <4>1 DEF Inv, Table
      <4>3. object[g] # None /\ g = cell[object[g]] /\ name[object[g]] = n
        BY <4>1, <4>2 DEF Serial, NamesGiven, IsFirst
      <4>4. object[g] # o /\ object[g] \in Objects
        BY <4>1, <4>3, KnownObject DEF Inv
      <4>5. object'[g] = object[g] /\ cell'[object[g]] = g /\ names'[n] = g
        BY <2>2, <2>3, <4>1, <4>2, <4>3, <4>4
      <4> QED
        BY <4>3, <4>5 DEF IsFirst
    <3>2. \A p \in Objects : name'[p] # None => p <= created'
      BY DEF Serial, NamesGiven
    <3> QED
      BY <3>1, <3>2 DEF NamesGiven
  <2> QED
    BY <2>2, <2>9, <2>10
<1> QED
  BY <1>3, <1>4

LEMMA DereferSerial ==
  ASSUME Inv, Serial, mode = "serial", NEW t \in Threads, Derefer(t)
  PROVE  Serial'
<1>1. call[t].at = "dereferring"
  BY DEF Derefer, At
<1>2. \A s \in Threads \ {t} : call[s].at = "idle"
  BY <1>1, OthersIdle
<1>3. PICK o \in Objects, h \in Handles : o = call[t].object /\ h = cell[o] /\ object[h] = o
  BY <1>1, CallObject
<1>4. call[t].handle = h /\ count[h] >= Owed(h) + 1
  BY <1>1, <1>3 DEF Serial, InCall, Covered
<1>5. ReleaseHandle(h) /\ UNCHANGED <<open, pointers, name, created>>
  BY <1>4 DEF Derefer, titleVars
<1>6. \A g, p : Opened(g, p)' = Opened(g, p)
  BY <1>5 DEF Opened, Openers
<1>7. count[h] >= Opened(h, o)' + (IF h = cell[o] THEN Held(o) ELSE 0) + 1
  <2>1. Owed(h) = Opened(h, o) + (IF h = cell[o] THEN Held(o) ELSE 0)
    BY <1>3 DEF Owed, IsFirst
  <2>2. Opened(h, o)' = Opened(h, o)
    BY <1>6
  <2> QED
    BY <1>4, <2>1, <2>2
<1>8. CellFirst' /\ Rights' /\ NamesGiven'
  BY <1>3, <1>5, <1>6, <1>7, ReleaseSerial
<1>9. PICK c : c = [call[t] EXCEPT !.at = "drop", !.handle = None]
  OBVIOUS
<1>10. c.at = "drop" /\ c.source = None
  BY <1>9, NextSerial
<1>11. InCall(c)'
  BY <1>10 DEF InCall
<1>12. Becomes(t, c)
  BY <1>9 DEF Derefer, Goto
<1> QED
  BY <1>2, <1>8, <1>11, <1>12, SerialStep

LEMMA NtCloseSerial ==
  ASSUME Inv, Serial, mode = "serial", NEW t \in Threads, NEW h \in Handles, NEW o, NtClose(t, h, o)
  PROVE  Serial'
<1>1. \A s \in Threads \ {t} : call[s].at = "idle"
  BY OthersIdle DEF NtClose
<1>2. /\ <<h, o>> \in open[t] /\ ReleaseHandle(h) /\ call[t].at = "idle"
      /\ open' = [open EXCEPT ![t] = open[t] \ {<<h, o>>}]
      /\ UNCHANGED <<call, pointers, name, created>>
  BY DEF NtClose, Begin
<1>3. o \in 1..created
  BY <1>2 DEF Inv, Title
<1>4. object[h] = o
  BY <1>2 DEF Serial, Rights
<1>5. o # None /\ o \in Objects
  <2>1. o # None
    BY <1>3, ObjectTableAssumption
  <2> QED
    BY <1>4, <2>1, KnownObject DEF Inv
<1>6. \A s \in Threads : \A g, p :
        <<g, p>> \in open'[s] <=> <<g, p>> \in open[s] /\ ~ (s = t /\ g = h /\ p = o)
  BY <1>2 DEF Inv, Title
<1>7. \A g, p : IF g = h /\ p = o THEN Opened(g, p)' = Opened(g, p) - 1
                                  ELSE Opened(g, p)' = Opened(g, p)
  <2>1. t \in Openers(h, o)
    BY <1>2 DEF Openers
  <2> QED
    BY <1>6, <2>1, CloseOne
<1>8. count[h] >= Opened(h, o)' + (IF h = cell[o] THEN Held(o) ELSE 0) + 1
  <2>1. Owed(h) = Opened(h, o) + (IF h = cell[o] THEN Held(o) ELSE 0)
    BY <1>4 DEF Owed, IsFirst
  <2>2. Opened(h, o) \in Nat /\ Held(o) \in Nat /\ Opened(h, o)' = Opened(h, o) - 1
    BY <1>7, CountsAreNat
  <2>3. count[h] >= Owed(h) + 0
    BY <1>4, <1>5 DEF Serial, Rights, Covered
  <2> QED
    BY <2>1, <2>2, <2>3
<1>9. \A s \in Threads : open'[s] \subseteq open[s]
  BY <1>2 DEF Inv, Title
<1>10. CellFirst' /\ Rights' /\ NamesGiven'
  BY <1>2, <1>4, <1>5, <1>7, <1>8, <1>9, ReleaseSerial
<1> QED
  BY <1>1, <1>2, <1>10, SerialNoCall

-----------------------------------------------------------------------------
(* Serial calls that add an entry.                                         *)

LEMMA AddSerial ==
  ASSUME Inv, Serial, NEW h \in Handles, NEW o \in Objects, NEW n, AddHandle(h, o, n),
         \A g, p : g # h \/ p # o => Opened(g, p)' = Opened(g, p),
         Opened(h, o)' <= 1,
         \A s \in Threads : \A right \in open'[s] : right \in open[s] \/ right = <<h, o>>,
         UNCHANGED <<pointers, names, name>>, created' = created \/ created' = created + 1
  PROVE  CellFirst' /\ Rights' /\ NamesGiven'
<1>1. /\ CellFirst' /\ \A p \in Objects \ {o} : cell'[p] = cell[p]
      /\ (\E g \in Handles : object[g] = o) => cell'[o] = cell[o]
      /\ ~ (\E g \in Handles : object[g] = o) => cell'[o] = h
  BY AddHandleFirst DEF Inv, Serial
<1>2. /\ object[h] = None /\ object'[h] = o /\ count'[h] = 1
      /\ \A g \in Handles \ {h} : object'[g] = object[g] /\ count'[g] = count[g]
  BY DEF AddHandle, Inv, Table
<1>3. /\ \A g \in Handles : object[g] # None => count[g] >= 1 /\ count[g] >= Owed(g) + 0
      /\ \A s \in Threads : \A right \in open[s] : object[right[1]] = right[2]
      /\ \A s \in Threads : \A p \in pointers[s] : object[cell[p]] = p
  BY DEF Serial, Rights, Covered
<1>4. \A s \in Threads : \A p \in pointers[s] : p \in 1..created /\ p \in Objects /\ cell[p] \in Handles
  <2>1. SUFFICES ASSUME NEW s \in Threads, NEW p \in pointers[s]
                 PROVE  p \in 1..created /\ p \in Objects /\ cell[p] \in Handles
    OBVIOUS
  <2>2. p \in 1..created
    BY DEF Inv, Title
  <2>3. cell[p] \in Handles /\ created \in 0..MaxObjects
    BY <2>2 DEF Inv, Table
  <2> QED
    BY <2>2, <2>3, ObjectTableAssumption DEF Objects
<1>5. \A p : Held(p) \in Nat /\ Held(p)' = Held(p)
  BY CountsAreNat DEF Held, Holders
<1>6. o # None
  BY ObjectTableAssumption DEF Objects
<1>7. Covered(h, 0)'
  <2>1. Owed(h)' = Opened(h, o)' + (IF h = cell'[o] THEN Held(o)' ELSE 0)
    BY <1>2 DEF Owed, IsFirst, Opened, Openers, Held, Holders
  <2>2. h = cell'[o] => Held(o) = 0
    <3>1. SUFFICES ASSUME h = cell'[o]
                   PROVE  Held(o) = 0
      OBVIOUS
    <3>2. Holders(o) = {}
      <4>1. SUFFICES ASSUME NEW s \in Threads, o \in pointers[s]
                     PROVE  FALSE
        BY DEF Holders
      <4>2. cell[o] \in Handles /\ object[cell[o]] = o
        BY <1>3, <1>4, <4>1
      <4>3. cell[o] = h
        BY <1>1, <3>1, <4>2
      <4> QED
        BY <1>2, <1>6, <4>2, <4>3
    <3> QED
      BY <3>2, FS_EmptySet DEF Held
  <2>3. Opened(h, o)' \in Nat /\ Opened(h, o)' <= 1
    BY CountsAreNat
  <2>4. count'[h] >= Owed(h)' + 0
    BY <1>2, <1>5, <2>1, <2>2, <2>3
  <2> QED
    BY <1>2, <1>6, <2>4 DEF Covered
<1>8. ASSUME NEW g \in Handles, g # h, object'[g] # None
      PROVE  count'[g] >= 1 /\ Covered(g, 0)'
  <2>1. object[g] # None /\ object'[g] = object[g] /\ count'[g] = count[g]
    BY <1>2, <1>8
  <2>2. PICK p \in Objects : p = object[g]
    BY <2>1, KnownObject DEF Inv
  <2>3. cell'[p] = cell[p]
    BY <1>1, <2>2
  <2>4. Owed(g) = Opened(g, p) + (IF g = cell[p] THEN Held(p) ELSE 0)
    BY <2>2 DEF Owed, IsFirst
  <2>5. Owed(g)' = Opened(g, p)' + (IF g = cell'[p] THEN Held(p)' ELSE 0)
    BY <2>1, <2>2 DEF Owed, IsFirst, Opened, Openers, Held, Holders
  <2>6. Opened(g, p)' = Opened(g, p) /\ Held(p)' = Held(p)
    BY <1>5, <1>8
  <2>7. count'[g] >= 1 /\ count'[g] >= Owed(g)' + 0
    BY <1>3, <2>1, <2>3, <2>4, <2>5, <2>6
  <2> QED
    BY <1>8, <2>7 DEF Covered
<1>9. ASSUME NEW s \in Threads, NEW right \in open'[s]
      PROVE  object'[right[1]] = right[2]
  <2>1. CASE right = <<h, o>>
    BY <1>2, <2>1
  <2>2. CASE right \in open[s]
    <3>1. right \in Handles \X (1..created) /\ object[right[1]] = right[2]
      BY <1>3, <2>2 DEF Inv, Title
    <3>2. right[2] # None
      BY <3>1, ObjectTableAssumption
    <3>3. right[1] # h
      BY <1>2, <3>1, <3>2
    <3> QED
      BY <1>2, <3>1, <3>3
  <2> QED
    BY <2>1, <2>2
<1>10. ASSUME NEW s \in Threads, NEW p \in pointers'[s]
       PROVE  object'[cell'[p]] = p
  <2>1. p \in pointers[s] /\ object[cell[p]] = p /\ p \in 1..created /\ p \in Objects /\ cell[p] \in Handles
    BY <1>3, <1>4
  <2>2. p # None
    BY <2>1, ObjectTableAssumption
  <2>3. cell'[p] = cell[p] /\ cell[p] # h
    BY <1>1, <1>2, <2>1, <2>2
  <2> QED
    BY <1>2, <2>1, <2>3
<1>11. Rights'
  BY <1>2, <1>7, <1>8, <1>9, <1>10 DEF Rights
<1>12. NamesGiven'
  <2>1. ASSUME NEW m \in Names, names'[m] # None
        PROVE  object'[names'[m]] # None /\ IsFirst(names[m])' /\ name'[object'[names'[m]]] = m
    <3>1. PICK g \in Handles : g = names[m] /\ names'[m] = g
      BY <2>1 DEF Inv, Table
    <3>2. object[g] # None /\ g = cell[object[g]] /\ name[object[g]] = m
      BY <2>1, <3>1 DEF Serial, NamesGiven, IsFirst
    <3>3. object[g] \in Objects /\ g # h
      BY <1>2, <3>2, KnownObject DEF Inv
    <3>4. object'[g] = object[g] /\ cell'[object[g]] = g
      BY <1>1, <1>2, <3>2, <3>3
    <3> QED
      BY <3>1, <3>2, <3>4 DEF IsFirst
  <2>2. \A p \in Objects : name'[p] # None => p <= created'
    <3>1. created \in Int /\ \A p \in Objects : p \in Int /\ (name[p] # None => p <= created)
      BY ObjectTableAssumption DEF Serial, NamesGiven, Inv, Table, Objects
    <3> QED
      BY <3>1
  <2> QED
    BY <2>1, <2>2 DEF NamesGiven
<1> QED
  BY <1>1, <1>11, <1>12

LEMMA CreateSerial ==
  ASSUME Inv, Serial, mode = "serial", NEW t \in Threads, Create(t)
  PROVE  Serial'
<1>1. call[t].at = "create"
  BY DEF Create, At
<1>2. \A s \in Threads \ {t} : call[s].at = "idle"
  BY <1>1, OthersIdle
<1>3. PICK o : o = created + 1
  OBVIOUS
<1>4. created' = o /\ o \in Objects /\ o \notin 1..created /\ o # None
  <2>1. created \in 0..MaxObjects /\ created < MaxObjects /\ created' = created + 1
    BY DEF Create, Inv, Table
  <2> QED
    BY <1>3, <2>1, ObjectTableAssumption DEF Objects
<1>5. PICK h \in Handles : AddHandle(h, o, 2)
  BY <1>4 DEF Create
<1>6. UNCHANGED <<open, pointers, names, name>>
  BY DEF Create, titleVars
<1>7. \A g, p : Opened(g, p)' = Opened(g, p)
  BY <1>6 DEF Opened, Openers
<1>8. Opened(h, o) = 0 /\ Held(o)' = 0
  <2>1. Openers(h, o) = {} /\ Holders(o)' = {}
    BY <1>4, <1>6 DEF Openers, Holders, Inv, Title
  <2> QED
    BY <2>1, FS_EmptySet DEF Opened, Held
<1>9. CellFirst' /\ Rights' /\ NamesGiven'
  <2>1. Opened(h, o)' <= 1
    BY <1>7, <1>8
  <2>2. \A s \in Threads : \A right \in open'[s] : right \in open[s] \/ right = <<h, o>>
    BY <1>6
  <2> QED
    BY <1>3, <1>4, <1>5, <1>6, <1>7, <2>1, <2>2, AddSerial
<1>10. object'[h] = o /\ count'[h] = 1 /\ cell'[o] = h
  <2>1. \A g \in Handles : object[g] # o
    BY <1>4 DEF Inv, Table
  <2>2. cell'[o] = h
    BY <1>4, <1>5, <2>1, AddHandleFirst DEF Inv, Serial
  <2> QED
    BY <1>5, <2>2 DEF AddHandle, Inv, Table
<1>11. Covered(h, 1)'
  <2>1. Owed(h)' = Opened(h, o)' + (IF h = cell'[o] THEN Held(o)' ELSE 0)
    BY <1>10 DEF Owed, IsFirst, Opened, Openers, Held, Holders
  <2>2. Owed(h)' = 0
    BY <1>7, <1>8, <2>1
  <2> QED
    BY <1>4, <1>10, <2>2 DEF Covered
<1>12. PICK c : c = [call[t] EXCEPT !.at = IF call[t].name = None THEN "created" ELSE "name",
                                    !.object = o]
  OBVIOUS
<1>13. c.at \in {"created", "name"} /\ c.object = o /\ c.source = None
  <2>1. call[t] \in CallType /\ call[t].source = None
    BY DEF Inv, Calls, Serial, InCall
  <2> QED
    BY <1>12, <2>1 DEF CallType
<1>14. name'[o] = None
  <2>1. name[o] # None => o <= created
    BY <1>4 DEF Serial, NamesGiven
  <2>2. created \in Nat
    BY DEF Inv, Table
  <2> QED
    BY <1>3, <1>6, <2>1, <2>2
<1>15. InCall(c)'
  BY <1>10, <1>11, <1>13, <1>14 DEF InCall
<1>16. Becomes(t, c)
  BY <1>4, <1>12 DEF Create
<1> QED
  BY <1>2, <1>9, <1>15, <1>16, SerialStep

LEMMA AddDuplicateSerial ==
  ASSUME Inv, Serial, mode = "serial", NEW t \in Threads, AddDuplicate(t)
  PROVE  Serial'
<1>1. call[t].at = "add"
  BY DEF AddDuplicate, At
<1>2. \A s \in Threads \ {t} : call[s].at = "idle"
  BY <1>1, OthersIdle
<1>3. PICK o : o = call[t].object
  OBVIOUS
<1>4. o \in Objects /\ o # None
  <2>1. o \in 1..created
    BY <1>1, <1>3 DEF Inv, Calls, CallOK
  <2>2. created \in 0..MaxObjects
    BY DEF Inv, Table
  <2> QED
    BY <2>1, <2>2, ObjectTableAssumption DEF Objects
<1>5. PICK h \in Handles :
        AddHandle(h, o, 1) /\ open' = [open EXCEPT ![t] = open[t] \cup {<<h, o>>}]
  BY <1>3 DEF AddDuplicate
<1>6. \A s \in Threads : \A g, p :
        <<g, p>> \in open'[s] <=> <<g, p>> \in open[s] \/ (s = t /\ g = h /\ p = o)
  BY <1>5 DEF Inv, Title
<1>7. \A g, p : IF g = h /\ p = o THEN Opened(g, p)' <= Opened(g, p) + 1
                                  ELSE Opened(g, p)' = Opened(g, p)
  BY <1>6, OpenOne
<1>8. Opened(h, o) = 0
  <2>1. object[h] = None
    BY <1>5 DEF AddHandle
  <2>2. \A s \in Threads : <<h, o>> \notin open[s]
    BY <1>4, <2>1 DEF Serial, Rights
  <2>3. Openers(h, o) = {}
    BY <2>2 DEF Openers
  <2> QED
    BY <2>3, FS_EmptySet DEF Opened
<1>9. UNCHANGED <<created, pointers, names, name>>
  BY DEF AddDuplicate
<1>10. CellFirst' /\ Rights' /\ NamesGiven'
  <2>1. Opened(h, o)' <= 1
    BY <1>7, <1>8
  <2>2. \A s \in Threads : \A right \in open'[s] : right \in open[s] \/ right = <<h, o>>
    BY <1>5 DEF Inv, Title
  <2>3. \A g, p : g # h \/ p # o => Opened(g, p)' = Opened(g, p)
    BY <1>7
  <2> QED
    BY <1>4, <1>5, <1>9, <2>1, <2>2, <2>3, AddSerial
<1>11. PICK c : c = [call[t] EXCEPT !.at = "drop", !.handle = None]
  OBVIOUS
<1>12. c.at = "drop" /\ c.source = None
  BY <1>11, NextSerial
<1>13. InCall(c)'
  BY <1>12 DEF InCall
<1>14. Becomes(t, c)
  BY <1>11 DEF AddDuplicate, Goto
<1> QED
  BY <1>2, <1>10, <1>13, <1>14, SerialStep

-----------------------------------------------------------------------------
LEMMA SerialInit == Init => SerialInv
<1> SUFFICES ASSUME Init PROVE Serial
  BY DEF SerialInv
<1>1. Alone /\ \A t \in Threads : InCall(call[t])
  BY DEF Init, Alone, InCall, Idle
<1>2. CellFirst
  BY DEF Init, CellFirst
<1>3. Rights
  BY DEF Init, Rights
<1>4. NamesGiven
  BY DEF Init, NamesGiven
<1> QED
  BY <1>1, <1>2, <1>3, <1>4 DEF Serial

LEMMA SerialStutter ==
  ASSUME Inv, Serial, UNCHANGED vars
  PROVE  Serial'
<1>1. UNCHANGED <<object, count, created, handles, cell, name, names, call, open, pointers>>
  BY DEF vars, tableVars, objectVars, titleVars
<1>2. CellFirst' /\ Rights' /\ NamesGiven'
  BY <1>1, FirstKept, RightsKept, NamesKept
<1>3. Alone'
  BY <1>1 DEF Serial, Alone
<1>4. \A t \in Threads : InCall(call[t])'
  <2>1. SUFFICES ASSUME NEW t \in Threads
                 PROVE  InCall(call[t])'
    OBVIOUS
  <2>2. PICK c : c = call[t] /\ call'[t] = c /\ InCall(c)
    BY <1>1 DEF Serial
  <2>3. InCall(c)'
    BY <1>1, <2>2 DEF InCall, Covered, Owed, IsFirst, Opened, Openers, Held, Holders
  <2> QED
    BY <2>2, <2>3 DEF InCall
<1> QED
  BY <1>2, <1>3, <1>4 DEF Serial

LEMMA SerialNext ==
  ASSUME Inv, Serial, mode = "serial", Next
  PROVE  Serial'
<1>1. PICK t \in Threads :
        \/ CreateUnnamed(t)
        \/ \E n \in Names : CreateNewName(t, n) \/ CreateKnownName(t, n) \/ ObOpenObjectByName(t, n)
        \/ LookUpNamed(t) \/ ReadHandle(t) \/ ReleaseNamed(t) \/ RetainNamed(t) \/ ReturnNamed(t)
        \/ Create(t) \/ SetAttributes(t) \/ ReturnCreated(t)
        \/ \E right \in open[t] :
             \/ NtClose(t, right[1], right[2])
             \/ ObReferenceObjectByHandle(t, right[1], right[2])
             \/ \E source \in {None, right[1]} : NtDuplicateObject(t, right[1], right[2], source)
        \/ AddDuplicate(t) \/ CloseSource(t)
        \/ Refer(t)
        \/ \E o \in pointers[t] : ObDereferenceObject(t, o)
        \/ Derefer(t) \/ Drop(t)
  BY Zenon DEF Next
<1>2. CASE CreateUnnamed(t)
  BY <1>2, CreateUnnamedSerial
<1>3. CASE \E n \in Names : CreateNewName(t, n) \/ CreateKnownName(t, n) \/ ObOpenObjectByName(t, n)
  BY <1>3, CreateNewNameSerial, CreateKnownNameSerial, ObOpenSerial, Zenon
<1>4. CASE LookUpNamed(t) \/ ReadHandle(t) \/ ReleaseNamed(t) \/ RetainNamed(t) \/ ReturnNamed(t)
  BY <1>4, LookUpNamedSerial, ReadHandleSerial, ReleaseNamedSerial, RetainNamedSerial,
     ReturnNamedSerial, Zenon
<1>5. CASE Create(t) \/ SetAttributes(t) \/ ReturnCreated(t)
  BY <1>5, CreateSerial, SetAttributesSerial, ReturnCreatedSerial, Zenon
<1>6. CASE \E right \in open[t] :
             \/ NtClose(t, right[1], right[2])
             \/ ObReferenceObjectByHandle(t, right[1], right[2])
             \/ \E source \in {None, right[1]} : NtDuplicateObject(t, right[1], right[2], source)
  <2>1. PICK right \in open[t] :
             \/ NtClose(t, right[1], right[2])
             \/ ObReferenceObjectByHandle(t, right[1], right[2])
             \/ \E source \in {None, right[1]} : NtDuplicateObject(t, right[1], right[2], source)
    BY <1>6
  <2>2. right[1] \in Handles
    BY DEF Inv, Title
  <2> QED
    BY <2>1, <2>2, NtCloseSerial, ReferenceSerial, DuplicateSerial, Zenon
<1>7. CASE AddDuplicate(t) \/ CloseSource(t)
  BY <1>7, AddDuplicateSerial, CloseSourceSerial, Zenon
<1>8. CASE Refer(t) \/ Derefer(t) \/ Drop(t)
  BY <1>8, ReferSerial, DereferSerial, DropSerial, Zenon
<1>9. CASE \E o \in pointers[t] : ObDereferenceObject(t, o)
  BY <1>9, ObDereferenceSerial, Zenon
<1> QED
  BY <1>1, <1>2, <1>3, <1>4, <1>5, <1>6, <1>7, <1>8, <1>9, Zenon

LEMMA ModeStays ==
  ASSUME [Next]_vars
  PROVE  mode' = mode
<1>1. CASE UNCHANGED vars
  BY <1>1 DEF vars, titleVars
<1>2. CASE Next
  <2>1. PICK t \in Threads :
          \/ CreateUnnamed(t)
          \/ \E n \in Names : CreateNewName(t, n) \/ CreateKnownName(t, n) \/ ObOpenObjectByName(t, n)
          \/ LookUpNamed(t) \/ ReadHandle(t) \/ ReleaseNamed(t) \/ RetainNamed(t) \/ ReturnNamed(t)
          \/ Create(t) \/ SetAttributes(t) \/ ReturnCreated(t)
          \/ \E right \in open[t] :
               \/ NtClose(t, right[1], right[2])
               \/ ObReferenceObjectByHandle(t, right[1], right[2])
               \/ \E source \in {None, right[1]} : NtDuplicateObject(t, right[1], right[2], source)
          \/ AddDuplicate(t) \/ CloseSource(t)
          \/ Refer(t)
          \/ \E o \in pointers[t] : ObDereferenceObject(t, o)
          \/ Derefer(t) \/ Drop(t)
    BY <1>2, Zenon DEF Next
  <2>2. /\ \A n \in Names : CreateNewName(t, n) \/ CreateKnownName(t, n) \/ ObOpenObjectByName(t, n)
                              => mode' = mode
        /\ CreateUnnamed(t) \/ LookUpNamed(t) \/ ReadHandle(t) => mode' = mode
    BY DEF CreateUnnamed, CreateNewName, CreateKnownName, ObOpenObjectByName, LookUpNamed, ReadHandle,
           titleVars
  <2>3. ReleaseNamed(t) \/ RetainNamed(t) \/ ReturnNamed(t) \/ Create(t) \/ SetAttributes(t)
          \/ ReturnCreated(t) => mode' = mode
    BY DEF ReleaseNamed, RetainNamed, ReturnNamed, Create, SetAttributes, ReturnCreated, titleVars
  <2>4. \A h, o, source :
          NtClose(t, h, o) \/ ObReferenceObjectByHandle(t, h, o) \/ NtDuplicateObject(t, h, o, source)
            => mode' = mode
    BY DEF NtClose, ObReferenceObjectByHandle, NtDuplicateObject, titleVars
  <2>5. AddDuplicate(t) \/ CloseSource(t) \/ Refer(t) \/ Derefer(t) \/ Drop(t) => mode' = mode
    BY DEF AddDuplicate, CloseSource, Refer, Derefer, Drop, titleVars
  <2>6. \A o : ObDereferenceObject(t, o) => mode' = mode
    BY DEF ObDereferenceObject
  <2> QED
    BY <2>1, <2>2, <2>3, <2>4, <2>5, <2>6, Zenon
<1> QED
  BY <1>1, <1>2

LEMMA SerialInductive ==
  ASSUME Inv, SerialInv, [Next]_vars
  PROVE  SerialInv'
<1>1. SUFFICES ASSUME mode = "serial"
               PROVE  Serial'
  BY ModeStays DEF SerialInv
<1>2. Serial
  BY <1>1 DEF SerialInv
<1> QED
  BY <1>1, <1>2, SerialNext, SerialStutter, Zenon

LEMMA OpenResolvesFollows ==
  ASSUME Inv, SerialInv
  PROVE  OpenResolves
<1>1. SUFFICES ASSUME Serial
               PROVE  /\ \A t \in Threads : \A right \in open[t] :
                           /\ object[right[1]] = right[2]
                           /\ count[right[1]] >= Cardinality(Openers(right[1], right[2]))
                      /\ \A t \in Threads : \A o \in pointers[t] :
                           handles[o] # <<>> /\ \E h \in ToSet(handles[o]) : count[h] >= Cardinality(Holders(o))
  BY DEF SerialInv, OpenResolves
<1>2. ASSUME NEW h \in Handles, object[h] # None
      PROVE  /\ count[h] >= Opened(h, object[h])
             /\ h = cell[object[h]] => count[h] >= Held(object[h])
  <2>1. count[h] >= Opened(h, object[h]) + (IF h = cell[object[h]] THEN Held(object[h]) ELSE 0) + 0
    BY <1>1, <1>2 DEF Serial, Rights, Covered, Owed, IsFirst
  <2>2. Opened(h, object[h]) \in Nat /\ Held(object[h]) \in Nat /\ count[h] \in Int
    BY CountsAreNat DEF Inv, Table
  <2> QED
    BY <2>1, <2>2
<1>3. ASSUME NEW t \in Threads, NEW right \in open[t]
      PROVE  object[right[1]] = right[2] /\ count[right[1]] >= Cardinality(Openers(right[1], right[2]))
  <2>1. right[1] \in Handles /\ right[2] \in 1..created
    BY DEF Inv, Title
  <2>2. object[right[1]] = right[2] /\ right[2] # None
    BY <1>1, <2>1, ObjectTableAssumption DEF Serial, Rights
  <2> QED
    BY <1>2, <2>1, <2>2 DEF Opened
<1>4. ASSUME NEW t \in Threads, NEW o \in pointers[t]
      PROVE  handles[o] # <<>> /\ \E h \in ToSet(handles[o]) : count[h] >= Cardinality(Holders(o))
  <2>1. o \in 1..created /\ object[cell[o]] = o
    BY <1>1 DEF Inv, Title, Serial, Rights
  <2>2. cell[o] \in Handles /\ created \in 0..MaxObjects /\ o # None
    BY <2>1, ObjectTableAssumption DEF Inv, Table
  <2>3. o \in Objects
    BY <2>1, <2>2, ObjectTableAssumption DEF Objects
  <2>4. handles[o] # <<>>
    BY <1>1, <2>1, <2>2, <2>3, NoEntry DEF Inv, Serial
  <2>5. cell[o] \in ToSet(handles[o])
    BY <2>1, <2>2, <2>3 DEF Inv, Table, HandlesMatchTable
  <2>6. count[cell[o]] >= Held(o)
    BY <1>2, <2>1, <2>2
  <2> QED
    BY <2>4, <2>5, <2>6 DEF Held
<1> QED
  BY <1>3, <1>4

LEMMA NamesFirstFollows ==
  ASSUME Inv, SerialInv
  PROVE  NamesFirst
<1>1. SUFFICES ASSUME Serial, NEW n \in Names, names[n] # None
               PROVE  \E o \in Objects : name[o] = n /\ handles[o] # <<>> /\ Head(handles[o]) = names[n]
  BY DEF SerialInv, NamesFirst
<1>2. PICK h \in Handles : h = names[n] /\ object[h] # None /\ cell[object[h]] = h /\ name[object[h]] = n
  BY <1>1 DEF Inv, Table, Serial, NamesGiven, IsFirst
<1>3. PICK o \in Objects : o = object[h]
  BY <1>2, KnownObject DEF Inv
<1>4. handles[o] # <<>>
  BY <1>1, <1>2, <1>3, NoEntry DEF Inv, Serial
<1>5. Head(handles[o]) = h
  BY <1>1, <1>2, <1>3, <1>4 DEF Serial, CellFirst
<1> QED
  BY <1>2, <1>3, <1>4, <1>5

-----------------------------------------------------------------------------
(* The theorems.                                                           *)

\* The invariant holds in every state of every behaviour.
THEOREM InvariantHolds == Spec => []Inv
<1>1. Inv /\ [Next]_vars => Inv'
  BY NextKeeps, StutterKeeps, Zenon
<1> QED
  BY InitEstablishes, <1>1, PTL DEF Spec

\* Every variable of the object table has its type, whatever calls overlap.
THEOREM TypeCorrect == Spec => []TypeOK
BY InvariantHolds, TypeFollows, PTL

\* pointer_ref_count_ of an object is the number of its entries and of the calls
\* that work on it, so it is deleted with the last of them and never earlier
\* (XObject::Retain, Release, ObjectTable::AddHandle, RemoveHandle).
THEOREM RefsAreExact == Spec => []RefsExact
<1>1. Inv => RefsExact
  BY DEF Inv, Counted
<1> QED
  BY InvariantHolds, <1>1, PTL

\* The table and handles_ of the objects name each other (ObjectTable::AddHandle,
\* RemoveHandle).
THEOREM HandlesMatch == Spec => []HandlesMatchTable
<1>1. Inv => HandlesMatchTable
  BY DEF Inv, Table
<1> QED
  BY InvariantHolds, <1>1, PTL

\* What the counts cover holds in every state, as long as calls do not overlap.
LEMMA SerialHolds == Spec => []SerialInv
<1>1. Inv /\ SerialInv /\ [Next]_vars => SerialInv'
  BY SerialInductive
<1> QED
  BY InvariantHolds, SerialInit, <1>1, PTL DEF Spec

\* As long as calls do not overlap, a handle leads to the object it was opened
\* for until everyone who opened it closed it, and a referenced object lives,
\* although every count goes through handles_[0] (NtClose, ReleaseHandle,
\* ObReferenceObjectByHandle, GetObjectByName).
THEOREM OpenHandlesResolve == Spec => []OpenResolves
<1>1. Inv /\ SerialInv => OpenResolves
  BY OpenResolvesFollows
<1> QED
  BY InvariantHolds, SerialHolds, <1>1, PTL

\* As long as calls do not overlap, a name leads to the first handle of an object
\* of that name, the one whose count GetObjectByName raises.
THEOREM NamesLeadToFirst == Spec => []NamesFirst
<1>1. Inv /\ SerialInv => NamesFirst
  BY NamesFirstFollows
<1> QED
  BY InvariantHolds, SerialHolds, <1>1, PTL

=============================================================================
