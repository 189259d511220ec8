------------------------ MODULE ArchivePreloadProofs ------------------------
(***************************************************************************)
(* Proofs about ArchivePreload, for links of any number of files and for   *)
(* tasks that run at any speed: a file is read once before it is used,     *)
(* preloading does not change what archives give, nothing that is waited   *)
(* for is lost, and no file is destroyed under a task.                     *)
(***************************************************************************)
EXTENDS ArchivePreload, CommonLemmas, SequenceTheorems

Parsing == {"lock", "note", "noting", "parsed"}
TaskPlaces == Parsing \cup {"idle", "notify", "done"}
MainPlaces == Parsing \cup {"spawn", "map", "file", "handle", "search", "get", "wait",
                            "runtime", "linked", "failed", "leave", "destroy", "gone"}

\* Every variable the proofs speak of has its type.
Typed ==
  /\ world \in Worlds
  /\ spawned \subseteq Tasks /\ finished \subseteq spawned /\ synced \subseteq {Main}
  /\ at \in [Threads -> TaskPlaces \cup MainPlaces]
  /\ at[Main] \in MainPlaces /\ \A t \in Tasks : at[t] \in TaskPlaces
  /\ reading \in [Threads -> Files \cup {None}]
  /\ holder \in [Files -> Threads \cup {None}]
  /\ parsed \in [Files -> BOOLEAN] /\ parses \in [Files -> Nat]
  /\ future \in [Members -> {"none", "unset", "null", "file"}]
  /\ returned \subseteq Members
  /\ pos \in 1 .. Len(world.inputs) + 1 /\ toMap \in 0 .. Len(world.inputs)
  /\ undefines \in Seq(Symbols) /\ toPreload \in Seq(Symbols)
  /\ next \in Nat \ {0} /\ next <= Len(undefines) + 1
  /\ handled \in Seq(Objects \cup Members)
  /\ context \in {"whole", "base", "nodes", "nothing"}

\* A task works on its own file, from when it is spawned until it has ended.
TaskState ==
  \A t \in Tasks :
    /\ at[t] # "idle" => t \in spawned
    /\ at[t] = "done" <=> t \in finished
    /\ at[t] \in Parsing \cup {"notify"} => reading[t] = t
    /\ at[t] = "notify" => t \in Members

\* doParse has not begun, or a thread is in it, or it is over.
Locks ==
  /\ \A f \in Files :
       \/ parses[f] = 0 /\ ~parsed[f] /\ holder[f] = None
       \/ parses[f] = 1 /\ ~parsed[f] /\ holder[f] # None
       \/ parses[f] = 1 /\ parsed[f] /\ holder[f] = None
  /\ \A f \in Files : holder[f] # None =>
       at[holder[f]] \in {"note", "noting"} /\ reading[holder[f]] = f
  /\ \A th \in Threads :
       /\ at[th] \in Parsing => reading[th] \in Files
       /\ at[th] \in {"note", "noting"} => holder[reading[th]] = th
       /\ at[th] = "parsed" => parsed[reading[th]]

\* A member's future follows its task.
Futures ==
  \A m \in Members :
    /\ future[m] = "none" <=> m \notin spawned
    /\ future[m] \in {"null", "file"} <=> at[m] \in {"notify", "done"}
    /\ future[m] \in {"null", "file"} => parsed[m]
    /\ future[m] = "null" => m \in world.bad
    /\ future[m] = "file" => m \notin world.bad

\* What Main sleeps for is not there yet, or its notify is still to come.
WaitsForNotify ==
  at[Main] = "wait" => future[reading[Main]] = "unset" \/ at[reading[Main]] = "notify"

InFlight == at[Main] \in Parsing \cup {"get", "wait"} /\ reading[Main] \in Members

\* Where Main is: the archive map comes before the first file is handled.
MainState ==
  /\ at[Main] = "spawn" => \A t \in spawned : \E i \in 1 .. pos - 1 : t = world.inputs[i]
  /\ toMap > 0 => at[Main] \in {"spawn", "map"} \cup Parsing
  /\ (toMap > 0 /\ at[Main] # "spawn") \/ at[Main] = "map" => pos = 1
  /\ at[Main] \in {"spawn", "map"} \/ toMap > 0 =>
       handled = <<>> /\ undefines = <<>> /\ returned = {}
  /\ at[Main] \in Parsing /\ toMap > 0 => reading[Main] = world.inputs[toMap]
  /\ at[Main] \in Parsing /\ toMap = 0 /\ reading[Main] \notin Members =>
       pos <= Len(world.inputs) /\ reading[Main] = Input
  /\ at[Main] \in {"get", "wait"} =>
       reading[Main] \in Members /\ future[reading[Main]] # "none"
  /\ at[Main] = "spawn" => \A m \in Members : future[m] = "none"

\* What counts as returned by find() has been linked, is on its way or is bad.
Returned ==
  /\ \A m \in returned : m \in Linked \/ m \in world.bad \/ (InFlight /\ m = reading[Main])
  /\ InFlight => /\ reading[Main] \in returned /\ reading[Main] \notin Linked
                 /\ next <= Len(undefines) /\ reading[Main] = Found

\* The files linked so far.
LinkedFiles ==
  /\ \A i \in DOMAIN handled : parsed[handled[i]] /\ handled[i] \notin world.bad
  /\ \A i, j \in DOMAIN handled : handled[i] = handled[j] => i = j
  /\ \A i \in DOMAIN handled :
       /\ handled[i] \in Members => handled[i] \in returned /\ Needed(i)
       /\ handled[i] \in Objects => \E j \in 1 .. pos - 1 : world.inputs[j] = handled[i]

\* Where a name that is or may become undefined comes from.
LeftBy(n, f) == \E l \in DOMAIN world.undefs[f] : world.undefs[f][l] = n
Sources ==
  /\ \A k \in DOMAIN undefines : \E j \in DOMAIN handled : LeftBy(undefines[k], handled[j])
  /\ at[Main] = "handle" =>
       /\ handled # <<>>
       /\ \A l \in DOMAIN toPreload : LeftBy(toPreload[l], handled[Len(handled)])

\* The archive has given what it has for the names up to next.
Served(k) == \/ undefines[k] \in defined
             \/ world.table[Archive][undefines[k]] \in Linked \cup world.bad \cup {None}
Searching ==
  \/ at[Main] = "search" \/ InFlight
  \/ at[Main] = "handle" /\ handled[Len(handled)] \in Members
Searched ==
  /\ Searching => /\ pos > 1 /\ Archive \in Archives
                  /\ \A k \in 1 .. next - 1 : Served(k)
  /\ at[Main] = "handle" /\ handled[Len(handled)] \in Objects =>
       pos > 1 /\ Archive \in Objects
  /\ at[Main] = "file" /\ pos > 1 /\ Archive \in Archives =>
       \A k \in DOMAIN undefines : Served(k)

\* The group is synced when the derived part of the context is gone.
Ending ==
  /\ context = "whole" <=> at[Main] \notin {"destroy", "gone"}
  /\ at[Main] = "gone" => context = "nothing"
  /\ Main \in synced <=> context \in {"nodes", "nothing"}
  /\ Main \in synced => spawned \subseteq finished

Inv == /\ Typed /\ TaskState /\ Locks /\ Futures /\ WaitsForNotify
       /\ MainState /\ Returned /\ LinkedFiles /\ Sources /\ Searched /\ Ending

-----------------------------------------------------------------------------
(* Threads, files and names are apart.                                     *)
LEMMA SortFacts ==
  /\ Main \in Threads /\ Main \notin Tasks /\ Main # None /\ None \notin Files
  /\ Tasks = Files /\ Threads = Tasks \cup {Main}
  /\ Files = Objects \cup Archives \cup Members
  /\ Objects \cap Archives = {} /\ Objects \cap Members = {} /\ Archives \cap Members = {}
<1> QED BY SortAssumption DEF Threads, Tasks, Files

(* A link is what WorldAssumption says.                                    *)
LEMMA WorldFacts ==
  ASSUME world \in Worlds
  PROVE  /\ world.inputs \in Seq(Objects \cup Archives)
         /\ Len(world.inputs) \in Nat /\ DOMAIN world.inputs = 1 .. Len(world.inputs)
         /\ \A i \in 1 .. Len(world.inputs) : world.inputs[i] \in Objects \cup Archives
         /\ \A i, j \in 1 .. Len(world.inputs) : world.inputs[i] = world.inputs[j] => i = j
         /\ \A f \in Files : world.undefs[f] \in Seq(Symbols)
         /\ \A a \in Archives, n \in Symbols : world.table[a][n] \in Members \cup {None}
<1>1. /\ world.inputs \in Seq(Objects \cup Archives)
      /\ \A i, j \in DOMAIN world.inputs : world.inputs[i] = world.inputs[j] => i = j
      /\ world.undefs \in [Files -> Seq(Symbols)]
      /\ world.table \in [Archives -> [Symbols -> Members \cup {None}]]
  BY WorldAssumption, Zenon
<1> QED BY <1>1, LenProperties

(* The map has a member for a name, or nothing.                            *)
LEMMA MappedMemberFacts ==
  ASSUME world \in Worlds, NEW n \in Symbols
  PROVE  MappedMember(n) \in Members \cup {None}
<1> DEFINE having == {i \in DOMAIN world.inputs :
                        /\ world.inputs[i] \in Archives \ world.bad
                        /\ world.table[world.inputs[i]][n] # None}
           first == CHOOSE i \in having : \A j \in having : i <= j
<1>1. CASE having = {}
  BY <1>1 DEF MappedMember
<1>2. CASE having # {}
  <2>1. having \in SUBSET Nat
    BY WorldFacts
  <2> HIDE DEF having
  <2>2. \E i \in having : \A j \in having : i <= j
    BY <1>2, <2>1, Least
  <2>3. first \in having
    BY <2>2
  <2>4. world.table[world.inputs[first]][n] \in Members \cup {None}
    BY <2>3, WorldFacts DEF having
  <2> QED BY <1>2, <2>4 DEF MappedMember, having
<1> QED BY <1>1, <1>2

(* A step of Main that lets tasks, files and futures alone.                *)
LEMMA TasksRest ==
  ASSUME Typed, TaskState, Locks, Futures,
         UNCHANGED <<world, spawned, finished, holder, parsed, parses, future>>,
         \A t \in Tasks : at'[t] = at[t] /\ reading'[t] = reading[t],
         at[Main] \notin {"note", "noting"},
         at'[Main] \in Parsing =>
           /\ reading'[Main] \in Files
           /\ at'[Main] = "lock" \/ (at'[Main] = at[Main] /\ reading'[Main] = reading[Main])
  PROVE  TaskState' /\ Locks' /\ Futures'
<1>1. TaskState'
  BY DEF TaskState
<1>2. Locks'
  <2>1. \A th \in Threads : at[th] \in {"note", "noting"} => at'[th] = at[th] /\ reading'[th] = reading[th]
    BY SortFacts
  <2>2. \A f \in Files : holder[f] # None => holder[f] \in Threads
    BY DEF Typed
  <2>3. \A f \in Files : holder'[f] # None =>
          at'[holder'[f]] \in {"note", "noting"} /\ reading'[holder'[f]] = f
    BY <2>1, <2>2 DEF Locks
  <2>4. \A th \in Threads :
          /\ at'[th] \in Parsing => reading'[th] \in Files
          /\ at'[th] \in {"note", "noting"} => holder'[reading'[th]] = th
          /\ at'[th] = "parsed" => parsed'[reading'[th]]
    BY SortFacts DEF Locks, Parsing
  <2> QED BY <2>3, <2>4 DEF Locks
<1>3. Futures'
  BY SortFacts DEF Futures
<1> QED BY <1>1, <1>2, <1>3

(* A step that leaves the resolver where it is, or between two places of   *)
(* reading the same file.                                                  *)
LEMMA ResolverRests ==
  ASSUME Typed, Returned, LinkedFiles, Sources, Searched,
         UNCHANGED <<world, returned, pos, toMap, undefines, next, defined, handled, toPreload>>,
         reading'[Main] = reading[Main],
         \/ at'[Main] = at[Main]
         \/ /\ at[Main] \in Parsing \cup {"get", "wait"}
            /\ at'[Main] \in Parsing \cup {"get", "wait"},
         \A f \in Files : parsed[f] => parsed'[f]
  PROVE  Returned' /\ LinkedFiles' /\ Sources' /\ Searched'
<1>1. InFlight' <=> InFlight
  BY DEF InFlight, Parsing
<1>2. Returned'
  BY <1>1 DEF Returned, Linked, Found, Archive
<1>3. LinkedFiles'
  <2>1. \A i \in DOMAIN handled : handled[i] \in Files
    BY SortFacts, ElementOfSeq, LenProperties DEF Typed
  <2> QED BY <2>1 DEF LinkedFiles, Needed
<1>4. Sources'
  BY DEF Sources, LeftBy, Parsing
<1>5. Searched'
  <2>1. Searching' <=> Searching
    BY <1>1 DEF Searching, Parsing
  <2> QED BY <2>1 DEF Searched, Served, Archive, Linked, Parsing
<1> QED BY <1>2, <1>3, <1>4, <1>5
-----------------------------------------------------------------------------
(* The beginning of a link.                                                *)
LEMMA InitInv == Init => Inv
<1> SUFFICES ASSUME Init PROVE Inv
  OBVIOUS
<1> USE SortFacts, WorldFacts
<1>1. /\ world \in Worlds /\ spawned = {} /\ finished = {} /\ synced = {}
      /\ at = [th \in Threads |-> IF th = Main THEN "spawn" ELSE "idle"]
      /\ reading = [th \in Threads |-> None] /\ holder = [f \in Files |-> None]
      /\ parsed = [f \in Files |-> FALSE] /\ parses = [f \in Files |-> 0]
      /\ future = [m \in Members |-> "none"]
      /\ returned = {} /\ pos = 1 /\ toMap = Len(world.inputs) /\ undefines = <<>>
      /\ next = 1 /\ handled = <<>> /\ toPreload = <<>> /\ context = "whole"
  BY DEF Init, Pool!Init
<1>2. Typed
  BY <1>1, EmptySeq DEF Typed, TaskPlaces, MainPlaces
<1>3. TaskState /\ Locks /\ Futures /\ WaitsForNotify
  BY <1>1 DEF TaskState, Locks, Futures, WaitsForNotify, Parsing
<1>4. MainState /\ Ending
  BY <1>1 DEF MainState, Ending, Parsing
<1>5. Returned /\ LinkedFiles /\ Sources /\ Searched
  BY <1>1 DEF Returned, LinkedFiles, Sources, Searched, InFlight, Searching, Parsing
<1> QED BY <1>2, <1>3, <1>4, <1>5 DEF Inv
-----------------------------------------------------------------------------
(* A step inside parse(), by a task or by Main.                            *)
LEMMA ParseStepInv ==
  ASSUME Inv, NEW th \in Threads, ParseStep(th)
  PROVE  Inv'
<1> USE SortFacts DEF Inv
<1>1. /\ UNCHANGED <<world, spawned, finished, synced, reading, future, returned,
                    pos, toMap, undefines, next, defined, handled, toPreload, context>>
      /\ at[th] \in Parsing /\ reading[th] \in Files
      /\ \E place \in Parsing : at' = [at EXCEPT ![th] = place]
  BY DEF ParseStep, Lock, NoteBegin, NoteEnd, Unlock, Go, Parsing, Locks, tasks,
         resolver, files
<1>2. /\ holder' \in [Files -> Threads \cup {None}] /\ parsed' \in [Files -> BOOLEAN]
      /\ parses' \in [Files -> Nat]
      /\ \A f \in Files : parsed[f] => parsed'[f]
  <2>1. CASE Lock(th)
    <3>1. CASE parsed[reading[th]]
      <4>1. UNCHANGED <<holder, parsed, parses>>
        BY <2>1, <3>1 DEF Lock
      <4> QED BY <4>1 DEF Typed
    <3>2. CASE ~parsed[reading[th]]
      <4>1. /\ holder' = [holder EXCEPT ![reading[th]] = th] /\ UNCHANGED parsed
            /\ parses' = [parses EXCEPT ![reading[th]] = @ + 1]
        BY <2>1, <3>2 DEF Lock
      <4>2. parses[reading[th]] + 1 \in Nat
        BY <1>1 DEF Typed
      <4> QED BY <1>1, <4>1, <4>2 DEF Typed
    <3> QED BY <3>1, <3>2
  <2>2. CASE NoteBegin(th) \/ NoteEnd(th)
    BY <2>2 DEF Typed, NoteBegin, NoteEnd, files
  <2>3. CASE Unlock(th)
    BY <1>1, <2>3 DEF Typed, Unlock
  <2> QED BY <2>1, <2>2, <2>3 DEF ParseStep
<1>3. Typed'
  BY <1>1, <1>2 DEF Typed, TaskPlaces, MainPlaces, Parsing
<1>4. TaskState'
  BY <1>1 DEF TaskState, Typed, Parsing
<1>5. Locks'
  <2>1. CASE Lock(th)
    <3>1. CASE parsed[reading[th]]
      <4>1. /\ at' = [at EXCEPT ![th] = "parsed"] /\ at[th] = "lock"
            /\ UNCHANGED <<holder, parsed, parses>>
        BY <2>1, <3>1 DEF Lock, Go
      <4> QED BY <1>1, <3>1, <4>1 DEF Typed, Locks, Parsing
    <3>2. CASE ~parsed[reading[th]]
      <4>1. /\ at' = [at EXCEPT ![th] = "note"] /\ at[th] = "lock" /\ holder[reading[th]] = None
            /\ holder' = [holder EXCEPT ![reading[th]] = th] /\ UNCHANGED parsed
            /\ parses' = [parses EXCEPT ![reading[th]] = @ + 1]
        BY <2>1, <3>2 DEF Lock, Go
      <4>2. \A f \in Files : holder'[f] # None => f = reading[th] \/ holder[f] = holder'[f]
        BY <1>1, <4>1 DEF Typed
      <4> QED BY <1>1, <3>2, <4>1, <4>2 DEF Typed, Locks, Parsing
    <3> QED BY <3>1, <3>2
  <2>2. CASE NoteBegin(th) \/ NoteEnd(th)
    <3>1. /\ \/ at[th] = "note" /\ at' = [at EXCEPT ![th] = "noting"]
             \/ at[th] = "noting" /\ at' = [at EXCEPT ![th] = "note"]
          /\ UNCHANGED <<holder, parsed, parses>>
      BY <2>2 DEF NoteBegin, NoteEnd, Go, files
    <3> QED BY <1>1, <3>1 DEF Typed, Locks, Parsing
  <2>3. CASE Unlock(th)
    BY <2>3 DEF Unlock, Go, Typed, Locks, Parsing
  <2> QED BY <2>1, <2>2, <2>3 DEF ParseStep
<1>6. Futures' /\ WaitsForNotify'
  BY <1>1, <1>2 DEF Futures, WaitsForNotify, Typed, Parsing
<1>7. MainState' /\ Ending'
  BY <1>1 DEF MainState, Ending, Typed, Parsing, Input
<1>8. Returned' /\ LinkedFiles' /\ Sources' /\ Searched'
  BY <1>1, <1>2, ResolverRests DEF Typed
<1> QED BY <1>3, <1>4, <1>5, <1>6, <1>7, <1>8

(* A task takes its closure, or its parse ends.                            *)
LEMMA TaskStepInv ==
  ASSUME Inv, NEW t \in Tasks, Start(t) \/ ParseTaskDone(t) \/ FutureSet(t) \/ FutureNotify(t)
  PROVE  Inv'
<1> USE SortFacts DEF Inv
<1>1. /\ UNCHANGED <<world, spawned, synced, holder, parsed, parses, returned,
                    pos, toMap, undefines, next, defined, handled, toPreload, context>>
      /\ reading[Main] = reading'[Main]
  BY DEF Start, ParseTaskDone, FutureSet, FutureNotify, Typed, Parse, tasks, resolver, files,
         Pool!Finish
<1>2. ASSUME Start(t) PROVE Inv'
  <2>1. /\ at[t] = "idle" /\ t \in spawned \ finished
        /\ at' = [at EXCEPT ![t] = "lock"] /\ reading' = [reading EXCEPT ![t] = t]
        /\ UNCHANGED <<finished, future>>
    BY <1>2 DEF Start, Go, Parse, tasks
  <2>2. Typed'
    BY <1>1, <2>1 DEF Typed, TaskPlaces, MainPlaces, Parsing
  <2>3. TaskState' /\ Locks' /\ Futures' /\ WaitsForNotify'
    BY <1>1, <2>1 DEF TaskState, Locks, Futures, WaitsForNotify, Typed, Parsing
  <2>4. MainState' /\ Ending'
    BY <1>1, <2>1 DEF MainState, Ending, Typed, Input
  <2>5. Returned' /\ LinkedFiles' /\ Sources' /\ Searched'
    BY <1>1, <2>1, ResolverRests DEF Typed
  <2> QED BY <2>2, <2>3, <2>4, <2>5
<1>3. ASSUME ParseTaskDone(t) PROVE Inv'
  <2>1. /\ at[t] = "parsed" /\ t \in Inputs /\ t \in spawned /\ finished' = finished \cup {t}
        /\ at' = [at EXCEPT ![t] = "done"] /\ reading' = [reading EXCEPT ![t] = None]
        /\ UNCHANGED future
    BY <1>3 DEF ParseTaskDone, Go, Pool!Finish
  <2>2. t \notin Members
    BY <2>1, WorldFacts DEF Inputs, Typed
  <2>3. Typed'
    BY <1>1, <2>1 DEF Typed, TaskPlaces, MainPlaces
  <2>4. TaskState' /\ Locks' /\ Futures' /\ WaitsForNotify'
    BY <1>1, <2>1, <2>2 DEF TaskState, Locks, Futures, WaitsForNotify, Typed, MainState, Parsing
  <2>5. MainState' /\ Ending'
    BY <1>1, <2>1 DEF MainState, Ending, Typed, Input
  <2>6. Returned' /\ LinkedFiles' /\ Sources' /\ Searched'
    BY <1>1, <2>1, ResolverRests DEF Typed
  <2> QED BY <2>3, <2>4, <2>5, <2>6
<1>4. ASSUME FutureSet(t) PROVE Inv'
  <2>1. /\ at[t] = "parsed" /\ t \in Members /\ at' = [at EXCEPT ![t] = "notify"]
        /\ future' = [future EXCEPT ![t] = IF t \in world.bad THEN "null" ELSE "file"]
        /\ UNCHANGED <<finished, reading>>
    BY <1>4 DEF FutureSet, Go, tasks
  <2>2. Typed'
    BY <1>1, <2>1 DEF Typed, TaskPlaces, MainPlaces
  <2>3. TaskState' /\ Locks' /\ WaitsForNotify'
    BY <1>1, <2>1 DEF TaskState, Locks, WaitsForNotify, Typed, MainState, Parsing
  <2>4. Futures'
    <3>1. t \in spawned /\ parsed[t]
      BY <2>1 DEF TaskState, Locks, Parsing
    <3> QED BY <1>1, <2>1, <3>1 DEF Futures, Typed
  <2>5. MainState' /\ Ending'
    <3>1. future[t] # "none" /\ future'[t] # "none" /\ at'[Main] = at[Main]
      BY <2>1 DEF TaskState, Futures, Typed
    <3>2. \A m \in Members \ {t} : future'[m] = future[m]
      BY <2>1 DEF Typed
    <3> QED BY <1>1, <2>1, <3>1, <3>2 DEF MainState, Ending, Typed, Input
  <2>6. Returned' /\ LinkedFiles' /\ Sources' /\ Searched'
    BY <1>1, <2>1, ResolverRests DEF Typed
  <2> QED BY <2>2, <2>3, <2>4, <2>5, <2>6
<1>5. ASSUME FutureNotify(t) PROVE Inv'
  <2>1. /\ at[t] = "notify" /\ t \in spawned /\ finished' = finished \cup {t}
        /\ at' = [[at EXCEPT ![t] = "done"] EXCEPT
                     ![Main] = IF at[Main] = "wait" /\ reading[Main] = t THEN "get" ELSE at[Main]]
        /\ at \in [Threads -> TaskPlaces \cup MainPlaces]
        /\ reading' = [reading EXCEPT ![t] = None]
        /\ UNCHANGED future
    BY <1>5 DEF FutureNotify, Pool!Finish, Typed
  <2>2. /\ at'[t] = "done" /\ \A u \in Tasks \ {t} : at'[u] = at[u]
        /\ at'[Main] = at[Main] \/ (at[Main] = "wait" /\ at'[Main] = "get")
        /\ at[Main] = "wait" /\ reading[Main] = t => at'[Main] = "get"
        /\ at' \in [Threads -> TaskPlaces \cup MainPlaces]
    <3>1. at'[Main] = IF at[Main] = "wait" /\ reading[Main] = t THEN "get" ELSE at[Main]
      BY <2>1 DEF Typed
    <3>2. at'[t] = "done" /\ \A u \in Tasks \ {t} : at'[u] = at[u]
      BY <2>1 DEF Typed
    <3>3. at' \in [Threads -> TaskPlaces \cup MainPlaces]
      BY <2>1 DEF Typed, TaskPlaces, MainPlaces
    <3> QED BY <3>1, <3>2, <3>3
  <2>3. Typed'
    <3>1. at'[Main] \in MainPlaces /\ \A u \in Tasks : at'[u] \in TaskPlaces
      BY <2>2 DEF Typed, TaskPlaces, MainPlaces
    <3>2. finished' \subseteq spawned /\ reading' \in [Threads -> Files \cup {None}]
      BY <2>1 DEF Typed
    <3> QED BY <1>1, <2>1, <2>2, <3>1, <3>2 DEF Typed
  <2>4. TaskState' /\ Locks' /\ Futures' /\ WaitsForNotify'
    BY <1>1, <2>1, <2>2 DEF TaskState, Locks, Futures, WaitsForNotify, Typed, MainState, Parsing
  <2>5. MainState' /\ Ending'
    BY <1>1, <2>1, <2>2 DEF MainState, Ending, Typed, Input, Parsing
  <2>6. Returned' /\ LinkedFiles' /\ Sources' /\ Searched'
    BY <1>1, <2>2, ResolverRests DEF Typed
  <2> QED BY <2>3, <2>4, <2>5, <2>6
<1> QED BY <1>2, <1>3, <1>4, <1>5
-----------------------------------------------------------------------------
(* What Main does before the first file is handled.                        *)
LEMMA BeginningInv ==
  ASSUME Inv, SpawnParse \/ SpawnDone \/ MapArchive \/ MapDone \/ MapParsed
  PROVE  Inv'
<1> USE SortFacts, WorldFacts DEF Inv
<1> USE DEF tasks, files, Go, Parse
<1>1. ASSUME SpawnParse PROVE Inv'
  <2>1. /\ at[Main] = "spawn" /\ pos \in 1 .. Len(world.inputs) /\ pos' = pos + 1
        /\ spawned' = spawned \cup {Input} /\ Input \in Objects \cup Archives
        /\ UNCHANGED <<world, finished, synced, at, reading, holder, parsed, parses, future,
             returned, toMap, undefines, next, defined, handled, toPreload, context>>
    BY <1>1 DEF SpawnParse, Typed, Pool!Spawn, Input
  <2>2. Typed' /\ TaskState'
    BY <2>1 DEF Typed, TaskState
  <2>3. Locks' /\ Futures' /\ WaitsForNotify'
    BY <2>1 DEF Locks, Futures, WaitsForNotify
  <2>4. MainState' /\ Ending'
    BY <2>1 DEF MainState, Ending, Typed, Input, Parsing
  <2>5. Returned' /\ LinkedFiles' /\ Sources' /\ Searched'
    BY <2>1 DEF Returned, LinkedFiles, Sources, Searched, InFlight, Searching, MainState,
                Parsing
  <2> QED BY <2>2, <2>3, <2>4, <2>5
<1>2. ASSUME SpawnDone \/ MapArchive \/ MapDone \/ MapParsed PROVE Inv'
  <2>1. /\ UNCHANGED <<world, spawned, finished, synced, holder, parsed, parses, future,
             returned, undefines, next, defined, handled, toPreload, context>>
        /\ at[Main] \in {"spawn", "map"} \/ toMap > 0
        /\ at[Main] \in {"spawn", "map", "parsed"}
        /\ \E place \in {"map", "lock", "file"} : at' = [at EXCEPT ![Main] = place]
        /\ \E f \in Files \cup {None} : reading' = [reading EXCEPT ![Main] = f]
    <3>1. reading = [reading EXCEPT ![Main] = reading[Main]] /\ reading[Main] \in Files \cup {None}
      BY DEF Typed
    <3>2. at[Main] = "map" => at = [at EXCEPT ![Main] = "map"]
      BY DEF Typed
    <3>3. CASE SpawnDone
      BY <3>1, <3>3 DEF SpawnDone
    <3>4. CASE MapArchive
      BY <3>1, <3>2, <3>4 DEF MapArchive, Typed
    <3>5. CASE MapDone
      BY <3>1, <3>5 DEF MapDone, resolver
    <3>6. CASE MapParsed
      BY <3>6 DEF MapParsed
    <3> QED BY <1>2, <3>3, <3>4, <3>5, <3>6
  <2>2. /\ pos' \in 1 .. Len(world.inputs) + 1 /\ toMap' \in 0 .. Len(world.inputs)
        /\ at'[Main] = "lock" => reading'[Main] = world.inputs[toMap] /\ toMap \in 1 .. Len(world.inputs)
                                 /\ toMap' = toMap
        /\ at'[Main] = "file" => toMap' = 0
        /\ pos' = 1
    <3>1. at[Main] # "spawn" => pos = 1
      BY <2>1 DEF MainState
    <3>2. toMap \in 0 .. Len(world.inputs) /\ pos \in 1 .. Len(world.inputs) + 1
          /\ at \in [Threads -> TaskPlaces \cup MainPlaces] /\ reading \in [Threads -> Files \cup {None}]
      BY DEF Typed
    <3>3. CASE SpawnDone
      BY <3>2, <3>3 DEF SpawnDone
    <3>4. CASE MapArchive
      BY <3>1, <3>2, <3>4 DEF MapArchive
    <3>5. CASE MapDone
      BY <3>1, <3>2, <3>5 DEF MapDone, resolver
    <3>6. CASE MapParsed
      BY <3>1, <3>2, <3>6 DEF MapParsed, Parsing
    <3> QED BY <1>2, <3>3, <3>4, <3>5, <3>6
  <2>3. Typed'
    BY <2>1, <2>2 DEF Typed, TaskPlaces, MainPlaces, Parsing
  <2>4. TaskState' /\ Locks' /\ Futures'
    BY <2>1, <2>2, TasksRest DEF Typed, Parsing
  <2>5. WaitsForNotify' /\ MainState' /\ Ending'
    BY <2>1, <2>2 DEF WaitsForNotify, MainState, Ending, Typed, Input, Parsing
  <2>6. Returned' /\ LinkedFiles' /\ Sources' /\ Searched'
    BY <2>1, <2>2 DEF Returned, LinkedFiles, Sources, Searched, InFlight, Searching, MainState,
                      Typed, Parsing
  <2> QED BY <2>3, <2>4, <2>5, <2>6
<1> QED BY <1>1, <1>2

(* What Main does after the last file.                                     *)
LEMMA EndingInv ==
  ASSUME Inv, Runtime \/ SyncFailed \/ DestroyDerived \/ DestroyGroup \/ DestroyNodes
  PROVE  Inv'
<1> USE SortFacts DEF Inv
<1>1. /\ UNCHANGED <<world, spawned, finished, reading, holder, parsed, parses, future, returned,
             pos, toMap, undefines, next, handled, toPreload>>
      /\ at[Main] \in {"runtime", "failed", "linked", "leave", "destroy"}
      /\ at' \in [Threads -> TaskPlaces \cup MainPlaces]
      /\ at'[Main] \in {"failed", "linked", "leave", "destroy", "gone"}
      /\ \A t \in Tasks : at'[t] = at[t]
      /\ synced' \subseteq {Main} /\ context' \in {"whole", "base", "nodes", "nothing"}
  <2>1. at \in [Threads -> TaskPlaces \cup MainPlaces] /\ synced \subseteq {Main}
        /\ context \in {"whole", "base", "nodes", "nothing"}
    BY DEF Typed
  <2> USE DEF tasks, files, resolver, Go
  <2>2. CASE Runtime
    <3>1. \E place \in {"linked", "failed"} : at' = [at EXCEPT ![Main] = place]
      BY <2>2 DEF Runtime
    <3> QED BY <2>1, <2>2, <3>1 DEF Runtime, MainPlaces
  <2>3. CASE SyncFailed
    BY <2>1, <2>3 DEF SyncFailed, MainPlaces
  <2>4. CASE DestroyDerived
    BY <2>1, <2>4 DEF DestroyDerived, MainPlaces
  <2>5. CASE DestroyGroup
    BY <2>1, <2>5 DEF DestroyGroup, MainPlaces, Pool!Sync
  <2>6. CASE DestroyNodes
    BY <2>1, <2>6 DEF DestroyNodes, MainPlaces
  <2> QED BY <2>2, <2>3, <2>4, <2>5, <2>6
<1>2. Typed'
  BY <1>1 DEF Typed, MainPlaces
<1>3. TaskState' /\ Locks' /\ Futures'
  BY <1>1, TasksRest DEF Parsing
<1>4. WaitsForNotify' /\ MainState'
  BY <1>1 DEF WaitsForNotify, MainState, Parsing
<1>5. Returned' /\ LinkedFiles' /\ Sources' /\ Searched'
  BY <1>1 DEF Returned, LinkedFiles, Sources, Searched, InFlight, Searching, Linked, Needed,
              LeftBy, Parsing
<1>6. Ending'
  <2>1. CASE Runtime \/ SyncFailed \/ DestroyDerived
    BY <1>1, <2>1 DEF Runtime, SyncFailed, DestroyDerived, Ending, Go, tasks, Typed
  <2>2. CASE DestroyGroup
    <3>1. Pool!InGroup(Main) = Tasks
      BY DEF Pool!InGroup
    <3>2. spawned \subseteq finished /\ synced' = synced \cup {Main}
      BY <2>2, <3>1 DEF DestroyGroup, Pool!Sync, Typed
    <3> QED BY <1>1, <2>2, <3>2 DEF DestroyGroup, Ending
  <2>3. CASE DestroyNodes
    BY <1>1, <2>3 DEF DestroyNodes, Ending, Go, tasks, Typed
  <2> QED BY <2>1, <2>2, <2>3
<1> QED BY <1>2, <1>3, <1>4, <1>5, <1>6

(* Main goes on to another file, archive or wait.                          *)
LEMMA GoesOnInv ==
  ASSUME Inv, NextFile \/ Handled \/ SearchSkips \/ SearchDone \/ FutureWait
  PROVE  Inv'
<1> USE SortFacts, WorldFacts DEF Inv
<1>1. /\ UNCHANGED <<world, spawned, finished, synced, holder, parsed, parses, future,
             returned, pos, toMap, undefines, defined, handled, toPreload, context>>
      /\ at[Main] \in {"file", "handle", "search", "get"}
      /\ toMap = 0
      /\ \E place \in {"lock", "runtime", "file", "search", "wait"} : at' = [at EXCEPT ![Main] = place]
      /\ reading' \in [Threads -> Files \cup {None}]
      /\ \A t \in Tasks : reading'[t] = reading[t]
      /\ at'[Main] # "lock" => reading' = reading
  <2>1. at \in [Threads -> TaskPlaces \cup MainPlaces] /\ reading \in [Threads -> Files \cup {None}]
        /\ toMap \in Nat /\ pos \in 1 .. Len(world.inputs) + 1
    BY DEF Typed
  <2>2. at[Main] \in {"file", "handle", "search", "get"} => toMap = 0
    BY <2>1 DEF MainState, Parsing
  <2> USE DEF tasks, files, resolver, Go, Parse
  <2>3. CASE NextFile
    <3>1. CASE pos <= Len(world.inputs)
      <4>1. Input \in Files
        BY <2>1, <3>1 DEF Input, Typed
      <4> QED BY <2>1, <2>2, <2>3, <3>1, <4>1 DEF NextFile
    <3>2. CASE ~(pos <= Len(world.inputs))
      BY <2>1, <2>2, <2>3, <3>2 DEF NextFile
    <3> QED BY <3>1, <3>2
  <2>4. CASE Handled
    BY <2>1, <2>2, <2>4 DEF Handled
  <2>5. CASE SearchSkips
    <3>1. at = [at EXCEPT ![Main] = "search"]
      BY <2>1, <2>5 DEF SearchSkips
    <3> QED BY <2>1, <2>2, <2>5, <3>1 DEF SearchSkips
  <2>6. CASE SearchDone
    BY <2>1, <2>2, <2>6 DEF SearchDone
  <2>7. CASE FutureWait
    BY <2>1, <2>2, <2>7 DEF FutureWait
  <2> QED BY <2>3, <2>4, <2>5, <2>6, <2>7
<1>2. Typed'
  <2>1. next' \in Nat \ {0} /\ next' <= Len(undefines) + 1
    BY LenProperties DEF NextFile, Handled, SearchSkips, SearchDone, FutureWait, resolver, Typed
  <2> QED BY <1>1, <2>1 DEF Typed, MainPlaces, Parsing
<1>3. TaskState' /\ Locks' /\ Futures'
  <2>1. at'[Main] \in Parsing => reading'[Main] \in Files /\ at'[Main] = "lock"
    BY <1>1, <1>2 DEF NextFile, Handled, SearchSkips, SearchDone, FutureWait, Go, Parse, Input,
       Typed, Parsing
  <2> QED BY <1>1, <2>1, TasksRest DEF Typed
<1>4. Ending'
  BY <1>1 DEF Ending, Typed
<1> USE DEF Typed, Go, Parse
<1>5. ASSUME NextFile PROVE Inv'
  <2>1. /\ at[Main] = "file" /\ UNCHANGED next
        /\ \/ at'[Main] = "lock" /\ reading'[Main] = Input /\ pos <= Len(world.inputs)
              /\ Input \in Objects \cup Archives
           \/ at'[Main] = "runtime"
    BY <1>5 DEF NextFile, resolver, Input
  <2>2. WaitsForNotify' /\ MainState'
    BY <1>1, <2>1 DEF WaitsForNotify, MainState, Input, Parsing
  <2>3. Returned' /\ LinkedFiles' /\ Sources' /\ Searched'
    BY <1>1, <2>1 DEF Returned, LinkedFiles, Sources, Searched, InFlight, Searching, Linked,
                      Needed, LeftBy, Parsing
  <2> QED BY <1>2, <1>3, <1>4, <2>2, <2>3
<1>6. ASSUME Handled PROVE Inv'
  <2>1. /\ at[Main] = "handle" /\ UNCHANGED <<next, reading>>
        /\ at'[Main] = IF handled[Len(handled)] \in Objects THEN "file" ELSE "search"
    BY <1>6 DEF Handled, resolver
  <2>2. handled[Len(handled)] \in Objects \cup Members
    BY <2>1, ElementOfSeq, LenProperties, EmptySeq DEF Sources
  <2>3. WaitsForNotify' /\ MainState'
    BY <1>1, <2>1 DEF WaitsForNotify, MainState, Input, Parsing
  <2>4. Returned' /\ LinkedFiles' /\ Sources'
    BY <1>1, <2>1 DEF Returned, LinkedFiles, Sources, InFlight, Linked, Needed, LeftBy, Parsing
  <2>5. Searched'
    <3>1. \A k : Served(k)' <=> Served(k)
      BY <1>1 DEF Served, Archive, Linked
    <3>2. ~InFlight'
      BY <1>1, <2>1 DEF InFlight, Parsing
    <3>3. Archive' = Archive
      BY <1>1 DEF Archive
    <3>4. CASE handled[Len(handled)] \in Objects
      BY <1>1, <2>1, <3>1, <3>2, <3>3, <3>4 DEF Searched, Searching
    <3>5. CASE handled[Len(handled)] \in Members
      BY <1>1, <2>1, <3>1, <3>2, <3>3, <3>5 DEF Searched, Searching
    <3> QED BY <2>2, <3>4, <3>5
  <2> QED BY <1>2, <1>3, <1>4, <2>3, <2>4, <2>5
<1>7. ASSUME SearchSkips PROVE Inv'
  <2>1. /\ at[Main] = "search" /\ UNCHANGED <<reading, at>> /\ next' = next + 1
    BY <1>7 DEF SearchSkips
  <2>2. WaitsForNotify' /\ MainState'
    BY <1>1, <2>1 DEF WaitsForNotify, MainState, Input, Parsing
  <2>3. Returned' /\ LinkedFiles' /\ Sources'
    BY <1>1, <2>1 DEF Returned, LinkedFiles, Sources, InFlight, Linked, Needed, LeftBy, Parsing
  <2>4. Served(next)
    BY <1>7, <2>1 DEF SearchSkips, Found, Returned, InFlight, Served, Parsing
  <2>5. Searched'
    <3>1. \A k : Served(k)' <=> Served(k)
      BY <1>1 DEF Served, Archive, Linked
    <3>2. \A k \in 1 .. next' - 1 : k \in 1 .. next - 1 \/ k = next
      BY <2>1
    <3>3. Archive' = Archive
      BY <1>1 DEF Archive
    <3>4. pos > 1 /\ Archive \in Archives /\ \A k \in 1 .. next - 1 : Served(k)
      BY <2>1 DEF Searched, Searching
    <3> QED BY <1>1, <2>1, <2>4, <3>1, <3>2, <3>3, <3>4 DEF Searched
  <2> QED BY <1>2, <1>3, <1>4, <2>2, <2>3, <2>5
<1>8. ASSUME SearchDone PROVE Inv'
  <2>1. /\ at[Main] = "search" /\ at'[Main] = "file" /\ UNCHANGED <<reading, next>>
        /\ next > Len(undefines)
    BY <1>8 DEF SearchDone, resolver
  <2>2. WaitsForNotify' /\ MainState'
    BY <1>1, <2>1 DEF WaitsForNotify, MainState, Input, Parsing
  <2>3. Returned' /\ LinkedFiles' /\ Sources'
    BY <1>1, <2>1 DEF Returned, LinkedFiles, Sources, InFlight, Linked, Needed, LeftBy, Parsing
  <2>4. DOMAIN undefines = 1 .. next - 1
    BY <2>1, LenProperties
  <2>5. Searched'
    BY <1>1, <2>1, <2>4 DEF Searched, Searching, InFlight, Served, Archive, Linked, Parsing
  <2> QED BY <1>2, <1>3, <1>4, <2>2, <2>3, <2>5
<1>9. ASSUME FutureWait PROVE Inv'
  <2>1. /\ at[Main] = "get" /\ at'[Main] = "wait" /\ UNCHANGED <<reading, next>>
        /\ future[reading[Main]] = "unset"
    BY <1>9 DEF FutureWait, resolver
  <2>2. WaitsForNotify' /\ MainState'
    BY <1>1, <2>1 DEF WaitsForNotify, MainState, Input, Parsing
  <2>3. Returned' /\ LinkedFiles' /\ Sources' /\ Searched'
    BY <1>1, <2>1, ResolverRests
  <2> QED BY <1>2, <1>3, <1>4, <2>2, <2>3
<1> QED BY <1>5, <1>6, <1>7, <1>8, <1>9

(* One more file is linked: the ones before it stay as they are.           *)
LEMMA HandledGrows ==
  ASSUME Typed, NEW f \in Objects \cup Members, handled' = Append(handled, f), world' = world
  PROVE  /\ Len(handled') = Len(handled) + 1 /\ Len(handled) \in Nat
         /\ handled' \in Seq(Objects \cup Members) /\ handled' # <<>>
         /\ DOMAIN handled = 1 .. Len(handled) /\ DOMAIN handled' = 1 .. Len(handled) + 1
         /\ \A i \in 1 .. Len(handled) : handled'[i] = handled[i] /\ (Needed(i) => Needed(i)')
         /\ handled'[Len(handled) + 1] = f
         /\ Linked' = Linked \cup {f}
<1>1. /\ handled \in Seq(Objects \cup Members) /\ Len(handled) \in Nat
      /\ DOMAIN handled = 1 .. Len(handled)
  BY LenProperties DEF Typed
<1>2. /\ Len(handled') = Len(handled) + 1 /\ handled' \in Seq(Objects \cup Members)
      /\ \A i \in 1 .. Len(handled) : handled'[i] = handled[i]
      /\ handled'[Len(handled) + 1] = f
  BY <1>1, AppendProperties
<1>3. DOMAIN handled' = 1 .. Len(handled) + 1
  BY <1>2, LenProperties
<1>4. ASSUME NEW i \in 1 .. Len(handled), Needed(i) PROVE Needed(i)'
  BY <1>1, <1>2, <1>4 DEF Needed
<1>5. Linked' = Linked \cup {f}
  BY <1>1, <1>2, <1>3 DEF Linked
<1> QED BY <1>1, <1>2, <1>3, <1>4, <1>5, EmptySeq

(* A file of the command line has been parsed.                             *)
LEMMA FileParsedInv ==
  ASSUME Inv, FileParsed
  PROVE  Inv'
<1> USE SortFacts, WorldFacts DEF Inv
<1>1. /\ at[Main] = "parsed" /\ toMap = 0 /\ reading[Main] = Input
      /\ pos \in 1 .. Len(world.inputs) /\ Input \in Objects \cup Archives /\ parsed[Input]
      /\ Input \notin Members
  BY DEF FileParsed, MainState, Locks, Typed, Parsing, Input
<1>2. /\ UNCHANGED <<world, spawned, finished, synced, holder, parsed, parses, future, returned,
             toMap, undefines, context>>
      /\ reading' = [reading EXCEPT ![Main] = None] /\ pos' = pos + 1 /\ next' = 1
  BY DEF FileParsed, tasks, files
<1>3. \/ /\ at' = [at EXCEPT ![Main] = "failed"]
         /\ UNCHANGED <<handled, defined, toPreload>>
      \/ /\ Input \in Objects \ world.bad
         /\ at' = [at EXCEPT ![Main] = "handle"]
         /\ handled' = Append(handled, Input) /\ toPreload' = world.undefs[Input]
         /\ defined \subseteq defined'
      \/ /\ Input \in Archives \ world.bad
         /\ at' = [at EXCEPT ![Main] = "search"]
         /\ UNCHANGED <<handled, defined, toPreload>>
  BY <1>1 DEF FileParsed, HandleFile, Go
<1>4. /\ at'[Main] \in {"failed", "handle", "search"} /\ at' \in [Threads -> TaskPlaces \cup MainPlaces]
      /\ \A t \in Tasks : at'[t] = at[t] /\ reading'[t] = reading[t]
      /\ reading' \in [Threads -> Files \cup {None}]
  BY <1>2, <1>3 DEF Typed, MainPlaces
<1>5. TaskState' /\ Locks' /\ Futures'
  BY <1>1, <1>2, <1>4, TasksRest DEF Parsing
<1>6. WaitsForNotify' /\ Ending'
  BY <1>1, <1>2, <1>4 DEF WaitsForNotify, Ending, Parsing
<1>7. MainState'
  BY <1>1, <1>2, <1>4 DEF MainState, Parsing
<1>8. ~InFlight /\ ~InFlight'
  BY <1>1, <1>4 DEF InFlight, Parsing
<1>9. ASSUME UNCHANGED <<handled, defined, toPreload>>,
             at'[Main] = "failed" \/ (at'[Main] = "search" /\ Input \in Archives)
      PROVE  Inv'
  <2>1. Typed'
    BY <1>1, <1>2, <1>4, <1>9 DEF Typed, MainPlaces
  <2>2. LinkedFiles'
    <3>1. \A i : Needed(i)' <=> Needed(i)
      BY <1>2, <1>9 DEF Needed
    <3>2. 1 .. pos - 1 \subseteq 1 .. pos' - 1
      BY <1>1, <1>2
    <3> QED BY <1>2, <1>9, <3>1, <3>2 DEF LinkedFiles
  <2>3. Returned' /\ Sources'
    BY <1>2, <1>8, <1>9 DEF Returned, Sources, Linked, LeftBy
  <2>4. pos' - 1 = pos /\ Archive' = Input
    BY <1>1, <1>2 DEF Archive, Input
  <2>5. Searched'
    BY <1>1, <1>2, <1>8, <1>9, <2>4 DEF Searched, Searching
  <2> QED BY <1>5, <1>6, <1>7, <2>1, <2>2, <2>3, <2>5
<1>10. ASSUME Input \in Objects \ world.bad, at'[Main] = "handle", defined \subseteq defined',
              handled' = Append(handled, Input), toPreload' = world.undefs[Input]
       PROVE  Inv'
  <2> DEFINE n == Len(handled)
  <2>1. /\ Len(handled') = n + 1 /\ n \in Nat
        /\ handled' \in Seq(Objects \cup Members) /\ handled' # <<>>
        /\ DOMAIN handled = 1 .. n /\ DOMAIN handled' = 1 .. n + 1
        /\ \A i \in 1 .. n : handled'[i] = handled[i] /\ (Needed(i) => Needed(i)')
        /\ handled'[n + 1] = Input
        /\ Linked' = Linked \cup {Input}
    BY <1>2, <1>10, HandledGrows
  <2> HIDE DEF n
  <2>2. Typed'
    BY <1>1, <1>2, <1>4, <1>10, <2>1 DEF Typed, MainPlaces
  <2>3. LinkedFiles'
    <3>1. \A i \in 1 .. n : handled[i] # Input
      <4>1. SUFFICES ASSUME NEW i \in 1 .. n, handled[i] = Input PROVE FALSE
        OBVIOUS
      <4>2. PICK j \in 1 .. pos - 1 : world.inputs[j] = Input
        BY <1>10, <2>1, <4>1 DEF LinkedFiles
      <4> QED BY <1>1, <4>2 DEF Typed, Input
    <3>2. \A i \in 1 .. n + 1 : parsed'[handled'[i]] /\ handled'[i] \notin world'.bad
      BY <1>1, <1>2, <1>10, <2>1 DEF LinkedFiles
    <3>3. \A i, j \in 1 .. n + 1 : handled'[i] = handled'[j] => i = j
      BY <2>1, <3>1 DEF LinkedFiles
    <3>4. \A i \in 1 .. n + 1 : handled'[i] \in Members => handled'[i] \in returned' /\ Needed(i)'
      BY <1>1, <1>2, <2>1 DEF LinkedFiles
    <3>5. \A i \in 1 .. n + 1 : handled'[i] \in Objects =>
                                 \E j \in 1 .. pos' - 1 : world'.inputs[j] = handled'[i]
      <4>1. pos \in 1 .. pos' - 1 /\ 1 .. pos - 1 \subseteq 1 .. pos' - 1 /\ world'.inputs[pos] = Input
        BY <1>1, <1>2 DEF Input
      <4> QED BY <1>2, <2>1, <4>1 DEF LinkedFiles
    <3> QED BY <2>1, <3>2, <3>3, <3>4, <3>5 DEF LinkedFiles
  <2>4. Returned'
    BY <1>2, <1>8, <2>1 DEF Returned
  <2>5. Sources'
    <3>2. \A x, f : LeftBy(x, f)' <=> LeftBy(x, f)
      BY <1>2 DEF LeftBy
    <3>3. 1 .. n \subseteq 1 .. n + 1
      BY <2>1
    <3> QED BY <1>2, <1>10, <2>1, <3>2, <3>3 DEF Sources, LeftBy
  <2>6. pos' - 1 = pos /\ Archive' = Input /\ pos' > 1
    BY <1>1, <1>2 DEF Archive, Input
  <2>7. Searched'
    BY <1>8, <1>10, <2>1, <2>6 DEF Searched, Searching
  <2> QED BY <1>5, <1>6, <1>7, <2>2, <2>3, <2>4, <2>5, <2>7
<1> QED BY <1>3, <1>9, <1>10 DEF Typed

(* An undefined name of the file that was linked last, and the preload of  *)
(* the member that defines it.                                             *)
LEMMA PreloadInv ==
  ASSUME Inv, Preload
  PROVE  Inv'
<1> USE SortFacts, WorldFacts DEF Inv
<1> DEFINE n == Head(toPreload)
           m == MappedMember(n)
           u == Len(undefines)
<1>1. /\ at[Main] = "handle" /\ toPreload # <<>> /\ toPreload' = Tail(toPreload)
      /\ undefines' = undefines \/ undefines' = Append(undefines, n)
      /\ \/ UNCHANGED <<spawned, future>>
         \/ /\ m # None /\ future[m] = "none" /\ future' = [future EXCEPT ![m] = "unset"]
            /\ spawned' = spawned \cup {m}
      /\ UNCHANGED <<world, finished, synced, at, reading, holder, parsed, parses, returned, pos,
             toMap, next, defined, handled, context>>
  BY DEF Preload, tasks, files, Pool!Spawn
<1>2. /\ n \in Symbols /\ toPreload' \in Seq(Symbols) /\ toPreload[1] = n
      /\ 1 \in DOMAIN toPreload
      /\ \A l \in DOMAIN toPreload' : l + 1 \in DOMAIN toPreload /\ toPreload'[l] = toPreload[l + 1]
  <2>1. toPreload \in Seq(Symbols) /\ toPreload # <<>>
    BY <1>1 DEF Typed
  <2>2. /\ n \in Symbols /\ Tail(toPreload) \in Seq(Symbols) /\ n = toPreload[1]
        /\ Len(Tail(toPreload)) = Len(toPreload) - 1
        /\ \A i \in 1 .. Len(Tail(toPreload)) : Tail(toPreload)[i] = toPreload[i + 1]
    BY <2>1, HeadTailProperties
  <2>3. DOMAIN toPreload = 1 .. Len(toPreload) /\ Len(toPreload) \in Nat /\ Len(toPreload) # 0
        /\ DOMAIN Tail(toPreload) = 1 .. Len(Tail(toPreload))
    BY <2>1, <2>2, LenProperties, EmptySeq
  <2> QED BY <1>1, <2>2, <2>3
<1>3. m \in Members \cup {None}
  BY <1>2, MappedMemberFacts DEF Typed
<1>4. /\ u \in Nat /\ undefines' \in Seq(Symbols) /\ Len(undefines') >= u
      /\ DOMAIN undefines = 1 .. u
      /\ \A k \in 1 .. u : undefines'[k] = undefines[k]
      /\ \A k \in DOMAIN undefines' \ (1 .. u) : undefines'[k] = n
      /\ DOMAIN undefines' = 1 .. Len(undefines')
  <2>1. undefines \in Seq(Symbols)
    BY DEF Typed
  <2>2. CASE undefines' = undefines
    BY <2>1, <2>2, LenProperties
  <2>3. CASE undefines' = Append(undefines, n)
    <3>1. /\ undefines' \in Seq(Symbols) /\ Len(undefines') = u + 1
          /\ \A k \in 1 .. u : undefines'[k] = undefines[k]
          /\ undefines'[u + 1] = n
      BY <1>2, <2>1, <2>3, AppendProperties
    <3>2. u \in Nat /\ DOMAIN undefines = 1 .. u /\ DOMAIN undefines' = 1 .. u + 1
      BY <2>1, <3>1, LenProperties
    <3> QED BY <3>1, <3>2
  <2> QED BY <1>1, <2>2, <2>3
<1> HIDE DEF n, m, u
<1>5. Typed'
  <2>1. spawned' \subseteq Tasks /\ finished \subseteq spawned'
        /\ future' \in [Members -> {"none", "unset", "null", "file"}]
    BY <1>1, <1>3 DEF Typed
  <2>2. next' \in Nat \ {0} /\ next' <= Len(undefines') + 1
    <3>1. Len(undefines') \in Nat /\ next <= u + 1
      BY <1>4, LenProperties DEF Typed, u
    <3>2. u \in Nat /\ u <= Len(undefines')
      BY <1>4, <3>1
    <3>3. next' = next /\ next \in Nat \ {0}
      BY <1>1 DEF Typed
    <3> QED BY <3>1, <3>2, <3>3
  <2> QED BY <1>1, <1>2, <1>4, <2>1, <2>2 DEF Typed
<1>6. TaskState' /\ Locks'
  <2>1. spawned \subseteq spawned'
    BY <1>1
  <2> QED BY <1>1, <2>1 DEF TaskState, Locks
<1>7. Futures'
  <2>1. ASSUME m \in Members, future[m] = "none" PROVE at[m] \notin {"notify", "done"}
    BY <2>1 DEF Futures
  <2> QED BY <1>1, <1>3, <2>1 DEF Futures, Typed
<1>8. WaitsForNotify' /\ MainState' /\ Ending'
  BY <1>1 DEF WaitsForNotify, MainState, Ending, Parsing
<1>9. Returned' /\ LinkedFiles'
  BY <1>1 DEF Returned, LinkedFiles, InFlight, Linked, Needed, Parsing
<1>10. Sources'
  <2>1. \A x, f : LeftBy(x, f)' <=> LeftBy(x, f)
    BY <1>1 DEF LeftBy
  <2>2. /\ handled # <<>> /\ LeftBy(n, handled[Len(handled)])
        /\ \A l \in DOMAIN toPreload' : LeftBy(toPreload'[l], handled[Len(handled)])
    BY <1>1, <1>2 DEF Sources
  <2>3. Len(handled) \in DOMAIN handled
    BY <2>2, LenProperties, EmptySeq DEF Typed
  <2>4. ASSUME NEW k \in DOMAIN undefines'
        PROVE  \E j \in DOMAIN handled : LeftBy(undefines'[k], handled[j])
    BY <1>4, <2>2, <2>3 DEF Sources
  <2> QED BY <1>1, <2>1, <2>2, <2>4 DEF Sources, LeftBy
<1>11. Searched'
  <2>1. \A k \in 1 .. u : Served(k) => Served(k)'
    <3>1. Archive' = Archive /\ Linked' = Linked
      BY <1>1 DEF Archive, Linked
    <3> QED BY <1>1, <1>4, <3>1 DEF Served
  <2>2. 1 .. next - 1 \subseteq 1 .. u
    BY <1>4 DEF Typed, u
  <2>3. Searching' <=> Searching
    BY <1>1 DEF Searching, InFlight
  <2> QED BY <1>1, <2>1, <2>2, <2>3 DEF Searched, Archive
<1> QED BY <1>5, <1>6, <1>7, <1>8, <1>9, <1>10, <1>11

(* find() has a member that was not handed out.                            *)
LEMMA FindMemberInv ==
  ASSUME Inv, FindMember
  PROVE  Inv'
<1> USE SortFacts DEF Inv
<1>1. /\ at[Main] = "search" /\ next <= Len(undefines)
      /\ Found \in Members \ returned /\ returned' = returned \cup {Found}
      /\ reading' = [reading EXCEPT ![Main] = Found]
      /\ \/ at' = [at EXCEPT ![Main] = "lock"]
         \/ at' = [at EXCEPT ![Main] = "get"] /\ future[Found] # "none"
      /\ UNCHANGED <<world, spawned, finished, synced, holder, parsed, parses, future, pos, toMap,
             undefines, next, defined, handled, toPreload, context>>
  BY DEF FindMember, Parse, Go, tasks, files, resolver
<1>2. /\ at'[Main] \in {"lock", "get"} /\ reading'[Main] = Found
      /\ at'[Main] = "get" => future[Found] # "none"
      /\ \A t \in Tasks : at'[t] = at[t] /\ reading'[t] = reading[t]
      /\ at' \in [Threads -> TaskPlaces \cup MainPlaces]
      /\ reading' \in [Threads -> Files \cup {None}]
  BY <1>1 DEF Typed, MainPlaces, Parsing
<1>3. Typed'
  BY <1>1, <1>2 DEF Typed, MainPlaces, Parsing
<1>4. TaskState' /\ Locks' /\ Futures'
  <2>1. at'[Main] \in Parsing => reading'[Main] \in Files /\ at'[Main] = "lock"
    BY <1>1, <1>2 DEF Parsing
  <2> QED BY <1>1, <1>2, <2>1, TasksRest
<1>5. WaitsForNotify' /\ MainState' /\ Ending'
  BY <1>1, <1>2 DEF WaitsForNotify, MainState, Ending, Parsing
<1>6. InFlight' /\ ~InFlight /\ Found' = Found /\ Archive' = Archive /\ Linked' = Linked
  BY <1>1, <1>2 DEF InFlight, Found, Archive, Linked, Parsing
<1>7. LinkedFiles'
  <2>1. \A i : Needed(i)' <=> Needed(i)
    BY <1>1 DEF Needed
  <2> QED BY <1>1, <2>1 DEF LinkedFiles
<1>8. Returned'
  <2>1. Found \notin Linked
    BY <1>1 DEF LinkedFiles, Linked
  <2> QED BY <1>1, <1>2, <1>6, <2>1 DEF Returned
<1>9. Sources'
  BY <1>1, <1>2 DEF Sources, LeftBy
<1>10. Searched'
  <2>1. \A k : Served(k)' <=> Served(k)
    BY <1>1, <1>6 DEF Served
  <2> QED BY <1>1, <1>2, <1>6, <2>1 DEF Searched, Searching
<1> QED BY <1>3, <1>4, <1>5, <1>7, <1>8, <1>9, <1>10

(* What find() returns is linked, or was not to be had.                    *)
LEMMA FindReturnsInv ==
  ASSUME Inv, MemberParsed \/ FutureGet
  PROVE  Inv'
<1> USE SortFacts, WorldFacts DEF Inv
<1> DEFINE f == reading[Main]
<1>1. /\ f \in Members /\ at[Main] \in {"parsed", "get"} /\ parsed[f]
      /\ \E file \in {None, f} : FindReturns(file) /\ (file = None <=> f \in world.bad)
  <2>1. CASE MemberParsed
    BY <2>1 DEF MemberParsed, Locks, Parsing
  <2>2. CASE FutureGet
    <3>1. f \in Members /\ at[Main] = "get" /\ future[f] \in {"null", "file"}
      BY <2>2 DEF FutureGet, MainState, Typed
    <3>2. parsed[f] /\ (future[f] = "null" <=> f \in world.bad)
      BY <3>1 DEF Futures
    <3> QED BY <2>2, <3>1, <3>2 DEF FutureGet
  <2> QED BY <2>1, <2>2
<1>2. /\ InFlight /\ f \in returned /\ f \notin Linked /\ f = Found
      /\ next \in 1 .. Len(undefines) /\ pos > 1 /\ Archive \in Archives /\ toMap = 0
  <2>1. InFlight /\ next \in Nat \ {0} /\ Len(undefines) \in Nat
    BY <1>1, LenProperties DEF InFlight, Parsing, Typed
  <2> QED BY <1>1, <2>1 DEF Returned, Searched, Searching, MainState, Parsing, Typed
<1>3. /\ UNCHANGED <<world, spawned, finished, synced, holder, parsed, parses, future, returned,
             pos, toMap, undefines, context>>
      /\ reading' = [reading EXCEPT ![Main] = None] /\ next' = next + 1
      /\ \/ /\ f \in world.bad /\ at' = [at EXCEPT ![Main] = "search"]
            /\ UNCHANGED <<handled, defined, toPreload>>
         \/ /\ f \notin world.bad /\ at' = [at EXCEPT ![Main] = "handle"]
            /\ handled' = Append(handled, f) /\ toPreload' = world.undefs[f]
            /\ defined \subseteq defined'
  BY <1>1 DEF FindReturns, HandleFile, Go, tasks, files
<1> HIDE DEF f
<1>4. /\ at'[Main] \in {"search", "handle"} /\ at' \in [Threads -> TaskPlaces \cup MainPlaces]
      /\ \A t \in Tasks : at'[t] = at[t] /\ reading'[t] = reading[t]
      /\ reading' \in [Threads -> Files \cup {None}]
      /\ next' \in Nat \ {0} /\ next' <= Len(undefines) + 1
  BY <1>2, <1>3 DEF Typed, MainPlaces
<1>5. TaskState' /\ Locks' /\ Futures'
  BY <1>1, <1>3, <1>4, TasksRest DEF Parsing
<1>6. WaitsForNotify' /\ MainState' /\ Ending'
  BY <1>1, <1>2, <1>3, <1>4 DEF WaitsForNotify, MainState, Ending, Parsing
<1>7. ~InFlight' /\ Archive' = Archive
  BY <1>3, <1>4 DEF InFlight, Archive, Parsing
<1>8. \A k \in 1 .. next' - 1 : k \in 1 .. next - 1 \/ k = next
  BY <1>2, <1>3
<1>9. world.table[Archive][undefines[next]] = f
  BY <1>2 DEF Found
<1>10. \A k \in 1 .. next - 1 : Served(k)
  BY <1>2 DEF Searched, Searching
<1>11. ASSUME f \in world.bad, at'[Main] = "search", UNCHANGED <<handled, defined, toPreload>>
       PROVE  Inv'
  <2>1. Typed'
    BY <1>3, <1>4, <1>11 DEF Typed, MainPlaces
  <2>2. LinkedFiles'
    <3>1. \A i : Needed(i)' <=> Needed(i)
      BY <1>3, <1>11 DEF Needed
    <3> QED BY <1>3, <1>11, <3>1 DEF LinkedFiles
  <2>3. Linked' = Linked /\ Returned' /\ Sources'
    BY <1>1, <1>2, <1>3, <1>7, <1>11 DEF Returned, Sources, Linked, LeftBy, f
  <2>4. \A k \in 1 .. next' - 1 : Served(k)'
    BY <1>3, <1>7, <1>8, <1>9, <1>10, <1>11, <2>3 DEF Served
  <2>5. Searched'
    BY <1>2, <1>3, <1>7, <1>11, <2>4 DEF Searched
  <2> QED BY <1>5, <1>6, <2>1, <2>2, <2>3, <2>5
<1>12. ASSUME f \notin world.bad, at'[Main] = "handle", handled' = Append(handled, f),
              toPreload' = world.undefs[f], defined \subseteq defined'
       PROVE  Inv'
  <2> PICK n \in Nat : n = Len(handled)
    BY LenProperties DEF Typed
  <2>1. /\ Len(handled') = n + 1 /\ n \in Nat
        /\ handled' \in Seq(Objects \cup Members) /\ handled' # <<>>
        /\ DOMAIN handled = 1 .. n /\ DOMAIN handled' = 1 .. n + 1
        /\ \A i \in 1 .. n : handled'[i] = handled[i] /\ (Needed(i) => Needed(i)')
        /\ handled'[n + 1] = f
        /\ Linked' = Linked \cup {f}
    BY <1>1, <1>3, <1>12, HandledGrows
  <2>2. Typed'
    BY <1>1, <1>3, <1>4, <1>12, <2>1 DEF Typed, MainPlaces
  <2>3. \E j \in 1 .. n : LeftBy(undefines[next], handled[j])
    <3>1. next \in DOMAIN undefines
      BY <1>2, LenProperties DEF Typed
    <3> QED BY <2>1, <3>1 DEF Sources
  <2>4. Needed(n + 1)'
    <3>1. PICK j \in 1 .. n : LeftBy(undefines[next], handled[j])
      BY <2>3
    <3>2. (n + 1) - 1 = n /\ handled'[j] = handled[j] /\ undefines[next] \in Symbols
      BY <1>2, <2>1, ElementOfSeq DEF Typed
    <3>3. /\ world'.table[Archive][undefines[next]] = handled'[n + 1]
          /\ \E k \in DOMAIN world'.undefs[handled'[j]] : world'.undefs[handled'[j]][k] = undefines[next]
      BY <1>3, <1>9, <2>1, <3>1, <3>2 DEF LeftBy
    <3>4. j \in 1 .. (n + 1) - 1
      BY <3>2
    <3>5. Archive \in Archives /\ undefines[next] \in Symbols
      BY <1>2, <3>2
    <3> QED BY <3>3, <3>4, <3>5 DEF Needed
  <2>5. LinkedFiles'
    <3>1. \A i \in 1 .. n : handled[i] # f
      BY <1>2, <2>1 DEF Linked
    <3>2. \A i \in 1 .. n + 1 : parsed'[handled'[i]] /\ handled'[i] \notin world'.bad
      <4>1. \A i \in 1 .. n : parsed[handled[i]] /\ handled[i] \notin world.bad
        BY <2>1 DEF LinkedFiles
      <4>2. \A i \in 1 .. n + 1 : i \in 1 .. n \/ i = n + 1
        BY <2>1
      <4> QED BY <1>1, <1>3, <1>12, <2>1, <4>1, <4>2
    <3>3. \A i, j \in 1 .. n + 1 : handled'[i] = handled'[j] => i = j
      BY <2>1, <3>1 DEF LinkedFiles
    <3>4. \A i \in 1 .. n + 1 : handled'[i] \in Members => handled'[i] \in returned' /\ Needed(i)'
      <4>1. \A i \in 1 .. n : handled[i] \in Members => handled[i] \in returned /\ Needed(i)
        BY <2>1 DEF LinkedFiles
      <4>2. \A i \in 1 .. n + 1 : i \in 1 .. n \/ i = n + 1
        BY <2>1
      <4>3. \A i \in 1 .. n : handled'[i] \in Members => handled'[i] \in returned' /\ Needed(i)'
        BY <1>3, <2>1, <4>1
      <4>4. handled'[n + 1] \in returned' /\ Needed(n + 1)'
        BY <1>2, <1>3, <2>1, <2>4
      <4> QED BY <4>2, <4>3, <4>4
    <3>5. \A i \in 1 .. n + 1 : handled'[i] \in Objects =>
                                 \E j \in 1 .. pos' - 1 : world'.inputs[j] = handled'[i]
      BY <1>1, <1>3, <2>1 DEF LinkedFiles, f
    <3> QED BY <2>1, <3>2, <3>3, <3>4, <3>5 DEF LinkedFiles
  <2>6. Returned'
    BY <1>2, <1>3, <1>7, <2>1 DEF Returned, f
  <2>7. Sources'
    <3>1. \A x, g : LeftBy(x, g)' <=> LeftBy(x, g)
      BY <1>3 DEF LeftBy
    <3>2. 1 .. n \subseteq 1 .. n + 1
      BY <2>1
    <3>3. \A k \in DOMAIN undefines : \E j \in 1 .. n + 1 : LeftBy(undefines[k], handled'[j])
      BY <2>1, <3>2 DEF Sources
    <3>4. \A l \in DOMAIN toPreload' : LeftBy(toPreload'[l], handled'[n + 1])
      BY <1>12, <2>1 DEF LeftBy
    <3> QED BY <1>3, <1>12, <2>1, <3>1, <3>3, <3>4 DEF Sources
  <2>8. \A k \in 1 .. next' - 1 : Served(k)'
    BY <1>3, <1>7, <1>8, <1>9, <1>10, <1>12, <2>1 DEF Served
  <2>9. Searched'
    BY <1>1, <1>2, <1>3, <1>7, <1>12, <2>1, <2>8 DEF Searched, f
  <2> QED BY <1>5, <1>6, <2>2, <2>5, <2>6, <2>7, <2>9
<1> QED BY <1>3, <1>11, <1>12 DEF Typed

(* Every step of the link, and its end.                                    *)
LEMMA NextInv == Inv /\ [Next]_vars => Inv'
<1> SUFFICES ASSUME Inv, [Next]_vars PROVE Inv'
  OBVIOUS
<1>1. CASE MainStep
  BY <1>1, SortFacts, BeginningInv, EndingInv, GoesOnInv, FileParsedInv, PreloadInv, FindMemberInv,
     FindReturnsInv, ParseStepInv DEF MainStep
<1>2. CASE \E t \in Tasks : TaskStep(t)
  BY <1>2, SortFacts, TaskStepInv, ParseStepInv DEF TaskStep
<1>3. CASE UNCHANGED vars
  BY <1>3 DEF vars, tasks, files, resolver, Inv, Typed, TaskState, Locks, Futures, WaitsForNotify,
     MainState, Returned, LinkedFiles, Sources, Searched, Ending, Linked, InFlight, Needed, LeftBy,
     Served, Searching, Found, Archive, Input
<1> QED BY <1>1, <1>2, <1>3 DEF Next, Ended

(* The invariant holds throughout every link.                              *)
THEOREM InvHolds == Spec => []Inv
BY InitInv, NextInv, PTL DEF Spec

(* File::parse: no file is parsed twice, and none is linked unparsed.      *)
THEOREM FilesReadOnce == Spec => []ReadOnceBeforeUse
<1>1. Inv => ReadOnceBeforeUse
  <2>1. ASSUME Inv, NEW f \in Linked PROVE parsed[f] /\ f \notin world.bad
    BY <2>1 DEF Inv, LinkedFiles, Linked
  <2>2. ASSUME Inv, NEW f \in Files PROVE parses[f] <= 1
    BY <2>2 DEF Inv, Locks
  <2> QED BY <2>1, <2>2 DEF ReadOnceBeforeUse
<1> QED BY <1>1, InvHolds, PTL

(* FileArchive::find gives the same members with and without the preload.  *)
THEOREM PreloadChangesNothing == Spec => []MembersAsNeeded
<1>1. Inv => MembersAsNeeded
  <2> SUFFICES ASSUME Inv PROVE MembersAsNeeded
    OBVIOUS
  <2>1. /\ \A i, j \in DOMAIN handled : handled[i] = handled[j] => i = j
        /\ \A i \in DOMAIN handled : handled[i] \in Members => Needed(i)
    BY DEF Inv, LinkedFiles
  <2>2. ASSUME at[Main] = "file", pos > 1, Archive \in Archives,
               NEW k \in DOMAIN undefines, undefines[k] \notin defined
        PROVE  world.table[Archive][undefines[k]] \in Linked \cup world.bad \cup {None}
    BY <2>2 DEF Inv, Searched, Served
  <2> QED BY <2>1, <2>2 DEF MembersAsNeeded
<1> QED BY <1>1, InvHolds, PTL

(* ~LinkingContext: the group is synced before the nodes are destroyed.    *)
THEOREM FilesStay == Spec => []FilesOutliveTasks
<1>1. Inv => FilesOutliveTasks
  BY DEF Inv, Ending, FilesOutliveTasks
<1> QED BY <1>1, InvHolds, PTL

(* Future::get and File::parse wait for somebody who does not wait: for a  *)
(* task that has yet to set or to notify, for a thread inside doParse.     *)
WaitsForTheBusy ==
  /\ at[Main] = "wait" =>
       LET m == reading[Main]
       IN  /\ m \in spawned \ finished
           /\ future[m] = "unset" \/ at[m] = "notify"
  /\ \A th \in Threads : at[th] = "lock" =>
       LET owner == holder[reading[th]]
       IN  owner # None => at[owner] \in {"note", "noting"} /\ reading[owner] = reading[th]

(* No wakeup of Main is lost, and no mutex is left locked.                 *)
THEOREM NothingLost == Spec => []WaitsForTheBusy
<1>1. Inv => WaitsForTheBusy
  <2> SUFFICES ASSUME Inv PROVE WaitsForTheBusy
    OBVIOUS
  <2> DEFINE m == reading[Main]
  <2>1. ASSUME at[Main] = "wait" PROVE m \in spawned \ finished
    <3>1. m \in Members /\ m \in Tasks /\ future[m] # "none"
      BY <2>1, SortFacts DEF Inv, MainState
    <3>2. m \in spawned /\ at[m] # "done"
      BY <2>1, <3>1 DEF Inv, Futures, WaitsForNotify
    <3> QED BY <3>1, <3>2 DEF Inv, TaskState
  <2>2. ASSUME at[Main] = "wait" PROVE future[m] = "unset" \/ at[m] = "notify"
    BY <2>2 DEF Inv, WaitsForNotify
  <2>3. ASSUME NEW th \in Threads, at[th] = "lock", holder[reading[th]] # None
        PROVE  LET owner == holder[reading[th]]
               IN  at[owner] \in {"note", "noting"} /\ reading[owner] = reading[th]
    BY <2>3 DEF Inv, Locks, Parsing
  <2> QED BY <2>1, <2>2, <2>3 DEF WaitsForTheBusy
<1> QED BY <1>1, InvHolds, PTL

\* A closure is spawned once: TaskGroup::spawn is not asked for one twice.
SpawnedOnce ==
  /\ at[Main] = "spawn" /\ pos <= Len(world.inputs) => Input \in Tasks \ spawned
  /\ \A m \in Members : future[m] = "none" => m \in Tasks \ spawned
  /\ at[Main] \in {"spawn", "handle"} => Main \notin synced

(* Neither Driver::link nor FileArchive::preload spawns a closure a second *)
(* time, or into a group that is gone.                                     *)
THEOREM ClosuresSpawnedOnce == Spec => []SpawnedOnce
<1>1. Inv => SpawnedOnce
  <2> SUFFICES ASSUME Inv PROVE SpawnedOnce
    OBVIOUS
  <2> USE SortFacts, WorldFacts DEF Inv
  <2>1. ASSUME at[Main] = "spawn", pos <= Len(world.inputs) PROVE Input \in Tasks \ spawned
    <3>1. pos \in 1 .. Len(world.inputs) /\ Input = world.inputs[pos] /\ Input \in Tasks
      BY <2>1 DEF Typed, Input
    <3>2. SUFFICES ASSUME Input \in spawned PROVE FALSE
      BY <3>1
    <3>3. PICK i \in 1 .. pos - 1 : Input = world.inputs[i]
      BY <2>1, <3>2 DEF MainState, Typed
    <3>4. i \in 1 .. Len(world.inputs) /\ i # pos /\ world \in Worlds
      BY <3>1 DEF Typed
    <3> QED BY <3>1, <3>3, <3>4
  <2>2. ASSUME NEW m \in Members, future[m] = "none" PROVE m \in Tasks \ spawned
    BY <2>2 DEF Futures
  <2>3. at[Main] \in {"spawn", "handle"} => Main \notin synced
    BY DEF Ending
  <2> QED BY <2>1, <2>2, <2>3 DEF SpawnedOnce
<1> QED BY <1>1, InvHolds, PTL
=============================================================================
