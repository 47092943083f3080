----------------------------- MODULE ObjectTable -----------------------------
(***************************************************************************)
(* Handles, references and names of kernel objects: util/object_table.cc,  *)
(* the reference counts of xobject.cc, and the calls a title makes on them *)
(* (NtCreateEvent and the other named creations, NtClose,                  *)
(* NtDuplicateObject, ObOpenObjectByName, ObReferenceObjectByHandle,       *)
(* ObDereferenceObject).                                                   *)
(*                                                                         *)
(* An object dies with its last reference.  Each entry of the table holds  *)
(* one, and so does each call that works on the object.  An entry goes     *)
(* when its handle count reaches 0.  The counts are changed through        *)
(* handles_[0], which a call reads before it takes the lock: cell is what  *)
(* that place of the vector holds, also after the vector became empty.     *)
(*                                                                         *)
(* A title closes and dereferences only what it opened and referenced.     *)
(***************************************************************************)
EXTENDS Integers, FiniteSets, SequencesExt

CONSTANTS
  Threads,     \* threads that make calls
  Handles,     \* entries of the table that are free at first
  MaxObjects,  \* bound on the objects created
  MaxCount,    \* bound on the handle counts
  MaxOpen,     \* bound on what a thread has opened and referenced
  Names,       \* names the title gives to its objects
  Modes,       \* "serial": one call at a time, "any": calls overlap
  None         \* no object, handle or name

ASSUME ObjectTableAssumption ==
  /\ IsFiniteSet(Threads) /\ IsFiniteSet(Handles)
  /\ MaxObjects \in Nat
  /\ MaxCount \in Nat
  /\ MaxOpen \in Nat
  /\ Modes \subseteq {"serial", "any"}
  /\ None \notin Nat /\ None \notin Names /\ None \notin Handles

Objects == 1..MaxObjects

VARIABLES
  object,   \* the object of each entry
  count,    \* its handle_ref_count
  created,  \* how many objects were created
  refs,     \* pointer_ref_count_
  handles,  \* handles_
  cell,     \* what handles_[0] reads
  header,   \* the handle in the object's guest header
  name,     \* name_
  names,    \* name_table_
  call,     \* the call each thread is in, and what it holds
  open,     \* the handles each thread opened, with their objects
  pointers, \* the objects each thread referenced
  mode      \* how the title makes its calls

tableVars  == <<object, count>>
objectVars == <<created, refs, handles, cell, header, name, names>>
titleVars  == <<open, pointers, mode>>
vars == <<tableVars, objectVars, call, titleVars>>

Idle == [at |-> "idle", object |-> None, handle |-> None, name |-> None, source |-> None]

Places ==
  {"idle", "lookup", "create", "name", "created", "release", "releasing", "retain",
   "retaining", "return", "refer", "referring", "derefer", "dereferring", "add", "drop", "close"}

TypeOK ==
  /\ object \in [Handles -> Objects \cup {None}]
  /\ count \in [Handles -> Int]
  /\ created \in 0..MaxObjects
  /\ refs \in [Objects -> Nat]
  /\ handles \in [Objects -> Seq(Handles)]
  /\ cell \in [Objects -> Handles \cup {None}]
  /\ header \in [Objects -> Handles \cup {None}]
  /\ name \in [Objects -> Names \cup {None}]
  /\ names \in [Names -> Handles \cup {None}]
  /\ call \in [Threads -> [at : Places, object : Objects \cup {None}, handle : Handles \cup {None},
                           name : Names \cup {None}, source : Handles \cup {None}]]
  /\ open \in [Threads -> SUBSET (Handles \X Objects)]
  /\ pointers \in [Threads -> SUBSET Objects]
  /\ mode \in Modes

Init ==
  /\ object = [h \in Handles |-> None]
  /\ count = [h \in Handles |-> 0]
  /\ created = 0
  /\ refs = [o \in Objects |-> 0]
  /\ handles = [o \in Objects |-> <<>>]
  /\ cell = [o \in Objects |-> None]
  /\ header = [o \in Objects |-> None]
  /\ name = [o \in Objects |-> None]
  /\ names = [n \in Names |-> None]
  /\ call = [t \in Threads |-> Idle]
  /\ open = [t \in Threads |-> {}]
  /\ pointers = [t \in Threads |-> {}]
  /\ mode \in Modes

-----------------------------------------------------------------------------
(* The table, under the global critical region.                            *)

\* Mutants of AddHandle: the entry takes no reference; a new handle comes first.
AddHandleBorrowed(h, o, n) ==
  /\ object[h] = None
  /\ object' = [object EXCEPT ![h] = o]
  /\ count' = [count EXCEPT ![h] = 1]
  /\ handles' = [handles EXCEPT ![o] = Append(@, h)]
  /\ cell' = [cell EXCEPT ![o] = IF handles[o] = <<>> THEN h ELSE @]
  /\ refs' = [refs EXCEPT ![o] = @ + n - 1]

AddHandleInFront(h, o, n) ==
  /\ object[h] = None
  /\ object' = [object EXCEPT ![h] = o]
  /\ count' = [count EXCEPT ![h] = 1]
  /\ handles' = [handles EXCEPT ![o] = Cons(h, @)]
  /\ cell' = [cell EXCEPT ![o] = h]
  /\ refs' = [refs EXCEPT ![o] = @ + n]

\* AddHandle.  FindFreeSlot may find any free entry, by what came and went before
\* in the table; the entry's reference is one of n that refs gains.
AddHandle(h, o, n) ==
  /\ object[h] = None
  /\ object' = [object EXCEPT ![h] = o]
  /\ count' = [count EXCEPT ![h] = 1]
  /\ handles' = [handles EXCEPT ![o] = Append(@, h)]
  /\ cell' = [cell EXCEPT ![o] = IF handles[o] = <<>> THEN h ELSE @]
  /\ refs' = [refs EXCEPT ![o] = @ + n]

Retain(o) == refs' = [refs EXCEPT ![o] = @ + 1]
Release(o) == refs' = [refs EXCEPT ![o] = @ - 1]

\* RetainHandle asks for no object in the entry.
RetainHandle(h) ==
  /\ count[h] < MaxCount
  /\ count' = [count EXCEPT ![h] = @ + 1]

\* Mutants of RemoveHandle: handles_ keeps the handle; the reference is kept.
RemoveEntryAlone(h) ==
  /\ object' = [object EXCEPT ![h] = None]
  /\ count' = [count EXCEPT ![h] = 0]
  /\ names' = [n \in Names |-> IF n = name[object[h]] THEN None ELSE names[n]]
  /\ Release(object[h])
  /\ UNCHANGED <<handles, cell>>

RemoveHandleUnreleased(h) ==
  LET o == object[h]
      rest == RemoveFirst(handles[o], h)
  IN /\ object' = [object EXCEPT ![h] = None]
     /\ count' = [count EXCEPT ![h] = 0]
     /\ handles' = [handles EXCEPT ![o] = rest]
     /\ cell' = [cell EXCEPT ![o] = IF rest = <<>> THEN @ ELSE Head(rest)]
     /\ names' = [n \in Names |-> IF n = name[o] THEN None ELSE names[n]]
     /\ UNCHANGED refs

\* RemoveHandle of an entry with an object; the object's name goes with it.
RemoveHandle(h) ==
  LET o == object[h]
      rest == RemoveFirst(handles[o], h)
  IN /\ object' = [object EXCEPT ![h] = None]
     /\ count' = [count EXCEPT ![h] = 0]
     /\ handles' = [handles EXCEPT ![o] = rest]
     /\ cell' = [cell EXCEPT ![o] = IF rest = <<>> THEN @ ELSE Head(rest)]
     /\ names' = [n \in Names |-> IF n = name[o] THEN None ELSE names[n]]
     /\ Release(o)

ReleaseHandle(h) ==
  IF count[h] = 1 /\ object[h] # None
  THEN RemoveHandle(h)
  ELSE /\ count[h] >= 0
       /\ count' = [count EXCEPT ![h] = @ - 1]
       /\ UNCHANGED <<object, handles, cell, names, refs>>

-----------------------------------------------------------------------------
(* Calls.                                                                  *)

Begin(t) ==
  /\ call[t].at = "idle"
  /\ mode = "serial" => \A s \in Threads : call[s].at = "idle"

\* A bound on what a thread opened and referenced.
MayOpen(t) == Cardinality(open[t]) + Cardinality(pointers[t]) < MaxOpen

At(t, place) == call[t].at = place
Becomes(t, c) == call' = [call EXCEPT ![t] = c]
Goto(t, place) == Becomes(t, [call[t] EXCEPT !.at = place, !.handle = None])
End(t) == Becomes(t, Idle)

\* Mutant of RetainByName: the handle is returned as it is.
RetainByNameNot(n) == UNCHANGED count

\* GetObjectByName: the object of the entry is retained through its own handle.
RetainByName(n) ==
  IF object[names[n]] = None
  THEN UNCHANGED count
  ELSE RetainHandle(cell[object[names[n]]])

\* LookupObject by a call that then stands at place.
LookupObject(t, h, place, source) ==
  /\ object[h] # None
  /\ Retain(object[h])
  /\ Becomes(t, [Idle EXCEPT !.at = place, !.object = object[h], !.source = source])

\* The creation of an object without a name, and of one with a name that is new.
CreateUnnamed(t) ==
  /\ Begin(t) /\ MayOpen(t)
  /\ Goto(t, "create")
  /\ UNCHANGED <<tableVars, objectVars, titleVars>>

CreateNewName(t, n) ==
  /\ Begin(t) /\ MayOpen(t)
  /\ names[n] = None
  /\ Becomes(t, [Idle EXCEPT !.at = "create", !.name = n])
  /\ UNCHANGED <<tableVars, objectVars, titleVars>>

\* LookupNamedObject of a name that exists.
CreateKnownName(t, n) ==
  /\ Begin(t) /\ MayOpen(t)
  /\ names[n] # None
  /\ RetainByName(n)
  /\ Becomes(t, [Idle EXCEPT !.at = "lookup", !.name = n, !.handle = names[n]])
  /\ UNCHANGED <<object, objectVars, titleVars>>

LookUpNamed(t) ==
  /\ At(t, "lookup")
  /\ IF object[call[t].handle] = None
     THEN Goto(t, "create") /\ UNCHANGED refs
     ELSE LookupObject(t, call[t].handle, "release", None)
  /\ UNCHANGED <<tableVars, created, handles, cell, header, name, names, titleVars>>

\* A call reads handles_[0] of its object, then takes the lock and uses it.
ReadHandle(t) ==
  /\ \E step \in {<<"release", "releasing">>, <<"retain", "retaining">>,
                  <<"refer", "referring">>, <<"derefer", "dereferring">>} :
       /\ At(t, step[1])
       /\ Becomes(t, [call[t] EXCEPT !.at = step[2], !.handle = cell[call[t].object]])
  /\ UNCHANGED <<tableVars, objectVars, titleVars>>

\* The reference LookupNamedObject took is given back ...
ReleaseNamed(t) ==
  /\ At(t, "releasing")
  /\ ReleaseHandle(call[t].handle)
  /\ Goto(t, "retain")
  /\ UNCHANGED <<created, header, name, titleVars>>

\* ... and its caller takes one for the title, which gets what handle() reads.
RetainNamed(t) ==
  /\ At(t, "retaining")
  /\ RetainHandle(call[t].handle)
  /\ Goto(t, "return")
  /\ UNCHANGED <<object, objectVars, titleVars>>

ReturnNamed(t) ==
  /\ At(t, "return")
  /\ <<cell[call[t].object], call[t].object>> \notin open[t]
  /\ open' = [open EXCEPT ![t] = @ \cup {<<cell[call[t].object], call[t].object>>}]
  /\ Release(call[t].object)
  /\ End(t)
  /\ UNCHANGED <<tableVars, created, handles, cell, header, name, names, pointers, mode>>

\* The constructor: one reference for the creator, one for the entry.  The
\* object's guest header keeps the handle.
Create(t) ==
  /\ At(t, "create")
  /\ created < MaxObjects
  /\ created' = created + 1
  /\ \E h \in Handles :
       /\ AddHandle(h, created', 2)
       /\ header' = [header EXCEPT ![created'] = h]
  /\ Becomes(t, [call[t] EXCEPT !.at = IF call[t].name = None THEN "created" ELSE "name",
                                !.object = created'])
  /\ UNCHANGED <<name, names, titleVars>>

\* SetAttributes; the collision AddNameMapping may report is dropped.
SetAttributes(t) ==
  LET o == call[t].object
      n == call[t].name
  IN /\ At(t, "name")
     /\ name' = [name EXCEPT ![o] = n]
     /\ names' = [names EXCEPT ![n] = IF @ = None THEN cell[o] ELSE @]
     /\ Goto(t, "created")
     /\ UNCHANGED <<tableVars, created, refs, handles, cell, header, titleVars>>

ReturnCreated(t) ==
  LET o == call[t].object
  IN /\ At(t, "created")
     /\ open' = [open EXCEPT ![t] = @ \cup {<<cell[o], o>>}]
     /\ Release(o)
     /\ End(t)
     /\ UNCHANGED <<tableVars, created, handles, cell, header, name, names, pointers, mode>>

ObOpenObjectByName(t, n) ==
  /\ Begin(t) /\ MayOpen(t)
  /\ names[n] # None
  /\ <<names[n], object[names[n]]>> \notin open[t]
  /\ RetainByName(n)
  /\ open' = IF object[names[n]] = None
             THEN open
             ELSE [open EXCEPT ![t] = @ \cup {<<names[n], object[names[n]]>>}]
  /\ UNCHANGED <<object, objectVars, call, pointers, mode>>

NtClose(t, h, o) ==
  /\ Begin(t)
  /\ <<h, o>> \in open[t]
  /\ open' = [open EXCEPT ![t] = @ \ {<<h, o>>}]
  /\ ReleaseHandle(h)
  /\ UNCHANGED <<created, header, name, call, pointers, mode>>

\* DUPLICATE_CLOSE_SOURCE removes the source whatever its count: source is the
\* handle to remove in the end.
NtDuplicateObject(t, h, o, source) ==
  /\ Begin(t) /\ MayOpen(t)
  /\ <<h, o>> \in open[t]
  /\ source = None \/ (source = h /\ mode = "any")
  /\ LookupObject(t, h, "add", source)
  /\ UNCHANGED <<tableVars, created, handles, cell, header, name, names, titleVars>>

AddDuplicate(t) ==
  /\ At(t, "add")
  /\ \E h \in Handles :
       /\ AddHandle(h, call[t].object, 1)
       /\ open' = [open EXCEPT ![t] = @ \cup {<<h, call[t].object>>}]
  /\ Goto(t, "drop")
  /\ UNCHANGED <<created, header, name, names, pointers, mode>>

CloseSource(t) ==
  /\ At(t, "close")
  /\ open' = [open EXCEPT ![t] = {right \in @ : right[1] # call[t].source}]
  /\ IF object[call[t].source] = None
     THEN UNCHANGED <<tableVars, handles, cell, names, refs>>
     ELSE RemoveHandle(call[t].source)
  /\ End(t)
  /\ UNCHANGED <<created, header, name, pointers, mode>>

ObReferenceObjectByHandle(t, h, o) ==
  /\ Begin(t) /\ MayOpen(t)
  /\ <<h, o>> \in open[t]
  /\ object[h] \notin pointers[t]
  /\ LookupObject(t, h, "refer", None)
  /\ UNCHANGED <<tableVars, created, handles, cell, header, name, names, titleVars>>

Refer(t) ==
  /\ At(t, "referring")
  /\ RetainHandle(call[t].handle)
  /\ pointers' = [pointers EXCEPT ![t] = @ \cup {call[t].object}]
  /\ Goto(t, "drop")
  /\ UNCHANGED <<object, objectVars, open, mode>>

\* GetNativeObject finds the object through the handle in its header.
ObDereferenceObject(t, o) ==
  /\ Begin(t)
  /\ o \in pointers[t]
  /\ pointers' = [pointers EXCEPT ![t] = @ \ {o}]
  /\ IF object[header[o]] = o
     THEN LookupObject(t, header[o], "derefer", None)
     ELSE UNCHANGED <<refs, call>>
  /\ UNCHANGED <<tableVars, created, handles, cell, header, name, names, open, mode>>

Derefer(t) ==
  /\ At(t, "dereferring")
  /\ ReleaseHandle(call[t].handle)
  /\ Goto(t, "drop")
  /\ UNCHANGED <<created, header, name, titleVars>>

\* The call's own reference goes.
Drop(t) ==
  /\ At(t, "drop")
  /\ Release(call[t].object)
  /\ IF call[t].source = None
     THEN End(t)
     ELSE Becomes(t, [Idle EXCEPT !.at = "close", !.source = call[t].source])
  /\ UNCHANGED <<tableVars, created, handles, cell, header, name, names, titleVars>>

-----------------------------------------------------------------------------
Next ==
  \E t \in Threads :
    \/ CreateUnnamed(t)
    \/ \E n \in Names : CreateNewName(t, n) \/ CreateKnownName(t, n) \/ ObOpenObjectByName(t, n)
    \/ LookUpNamed(t) \/ ReadHandle(t) \/ ReleaseNamed(t) \/ RetainNamed(t) \/ ReturnNamed(t)
    \/ Create(t) \/ SetAttributes(t) \/ ReturnCreated(t)
    \/ \E right \in open[t] :
         \/ NtClose(t, right[1], right[2])
         \/ ObReferenceObjectByHandle(t, right[1], right[2])
         \/ \E source \in {None, right[1]} : NtDuplicateObject(t, right[1], right[2], source)
    \/ AddDuplicate(t) \/ CloseSource(t)
    \/ Refer(t)
    \/ \E o \in pointers[t] : ObDereferenceObject(t, o)
    \/ Derefer(t) \/ Drop(t)

Spec == Init /\ [][Next]_vars

-----------------------------------------------------------------------------
Users(o) == {t \in Threads : call[t].object = o}
Openers(h, o) == {t \in Threads : <<h, o>> \in open[t]}
Holders(o) == {t \in Threads : o \in pointers[t]}

\* An object has one reference for every entry of the table that names it and
\* one for every call that works on it (Retain, Release, AddHandle,
\* RemoveHandle): it is deleted when neither is left, and never earlier,
\* whatever races the calls run.
RefsExact == \A o \in Objects : refs[o] = Len(handles[o]) + Cardinality(Users(o))

\* handles_ of an object are the entries that name it, each once (AddHandle,
\* RemoveHandle): no handle outlives its object.
HandlesMatchTable ==
  \A o \in Objects :
    /\ IsInjective(handles[o])
    /\ ToSet(handles[o]) = {h \in Handles : object[h] = o}

\* As long as calls do not overlap, a handle leads to the object it was opened
\* for until everyone who opened it closed it, and a referenced object lives
\* (NtClose, ReleaseHandle, ObReferenceObjectByHandle, GetObjectByName, whose
\* counts all go through handles_[0]).
OpenResolves ==
  mode = "serial" =>
    /\ \A t \in Threads : \A right \in open[t] :
         /\ object[right[1]] = right[2]
         /\ count[right[1]] >= Cardinality(Openers(right[1], right[2]))
    /\ \A t \in Threads : \A o \in pointers[t] :
         handles[o] # <<>> /\ \E h \in ToSet(handles[o]) : count[h] >= Cardinality(Holders(o))

\* As long as calls do not overlap, a name leads to the first handle of an object
\* of that name, so GetObjectByName retains the handle it returns.
NamesFirst ==
  mode = "serial" =>
    \A n \in Names : names[n] # None =>
      \E o \in Objects : name[o] = n /\ handles[o] # <<>> /\ Head(handles[o]) = names[n]
=============================================================================
