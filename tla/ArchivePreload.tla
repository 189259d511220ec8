--------------------------- MODULE ArchivePreload ---------------------------
(***************************************************************************)
(* The atom linker's parallel reading: Driver::link spawns a parse of      *)
(* every input file, the resolver (Main) goes through the inputs, and for  *)
(* each name a file leaves undefined it has the archive that defines it    *)
(* preload the member on another thread.  FileArchive::find then waits for *)
(* the member's Future, or instantiates the member itself.  At the end the *)
(* linking context is destroyed, its TaskGroup with it.                    *)
(*                                                                         *)
(* The tasks run on a TaskGroup: spawning, ending and the final sync are   *)
(* that module's actions, which ThreadPool implements.  Each critical      *)
(* section is a step: of File::_parseMutex (held throughout doParse), of   *)
(* Future::_mutex.  FileArchive::_mutex is only ever taken by Main.        *)
(* ELFLinkingContext::_cidentSections has no lock: an insert is a read and *)
(* a write.                                                                *)
(***************************************************************************)
EXTENDS Naturals, Sequences, FiniteSets

CONSTANTS
  Main,       \* the thread that links
  None,       \* nullptr
  Objects,    \* object files on the command line
  Archives,   \* archives on the command line
  Members,    \* members of the archives
  Names,      \* names of symbols
  Sections,   \* names of sections that are C identifiers; the name S of a
              \* section is also the name of the symbol __start_S
  Worlds      \* the links: records of
              \*   inputs    the sequence of the files on the command line
              \*   defs      [Files -> SUBSET Names]
              \*   undefs    [Files -> Seq(Names \cup Sections)]
              \*   table     [Archives -> [Symbols -> Members \cup {None}]]
              \*   sections  [Files -> SUBSET Sections]
              \*   bad       the files whose doParse fails

Files == Objects \cup Archives \cup Members
Tasks == Files              \* one parse per input, one preload per member
Threads == Tasks \cup {Main}
Symbols == Names \cup Sections

ASSUME SortAssumption ==
  /\ Main \notin Files /\ None \notin Threads
  /\ Objects \cap Archives = {} /\ (Objects \cup Archives) \cap Members = {}

\* Each argument makes a File of its own: no input comes twice.
ASSUME WorldAssumption ==
  \A w \in Worlds :
    /\ w.inputs \in Seq(Objects \cup Archives)
    /\ \A i, j \in DOMAIN w.inputs : w.inputs[i] = w.inputs[j] => i = j
    /\ w.undefs \in [Files -> Seq(Symbols)]
    /\ w.table \in [Archives -> [Symbols -> Members \cup {None}]]

VARIABLES
  world,
  spawned, finished, synced,   \* LinkingContext::_taskGroup
  at,         \* where each thread is
  reading,    \* the file a thread is in parse() of
  toNote,     \* sections its createAtomizableSections has yet to note
  seen,       \* _cidentSections as a thread read it for its insert
  holder,     \* the thread that holds a file's _parseMutex
  parsed,     \* _lastError of the file has a value
  parses,     \* how often doParse was run on the file
  noted,      \* ELFLinkingContext::_cidentSections
  future,     \* a member's entry in FileArchive::_preloaded
  returned,   \* FileArchive::_membersInstantiated of all archives
  pos,        \* index of the next input
  toMap,      \* inputs updatePreloadArchiveMap has yet to look at
  undefines,  \* Resolver::_undefines
  next,       \* the index forEachUndefines is at
  defined,    \* names the symbol table has a definition of
  handled,    \* the files handleFile was called on, in order
  toPreload,  \* undefined names of the file in handleFile still to be seen
  context     \* how much of the LinkingContext is left

tasks == <<spawned, finished, synced>>
files == <<holder, parsed, parses>>
resolver == <<pos, toMap, undefines, next, defined, handled, toPreload>>
vars == <<world, tasks, at, reading, toNote, seen, files, noted, future,
          returned, resolver, context>>

Pool == INSTANCE TaskGroup WITH Parent <- [t \in Tasks |-> Main],
                                GroupOf <- [t \in Tasks |-> Main]

Inputs == {world.inputs[i] : i \in DOMAIN world.inputs}
Input == world.inputs[pos]
-----------------------------------------------------------------------------
Init ==
  /\ world \in Worlds
  /\ Pool!Init
  /\ at = [th \in Threads |-> IF th = Main THEN "spawn" ELSE "idle"]
  /\ reading = [th \in Threads |-> None]
  /\ toNote = [th \in Threads |-> {}]
  /\ seen = [th \in Threads |-> {}]
  /\ holder = [f \in Files |-> None]
  /\ parsed = [f \in Files |-> FALSE]
  /\ parses = [f \in Files |-> 0]
  /\ noted = {}
  /\ future = [m \in Members |-> "none"]
  /\ returned = {}
  /\ pos = 1
  /\ toMap = Len(world.inputs)
  /\ undefines = <<>>
  /\ next = 1
  /\ defined = {}
  /\ handled = <<>>
  /\ toPreload = <<>>
  /\ context = "whole"

Go(th, place) == at' = [at EXCEPT ![th] = place]
-----------------------------------------------------------------------------
\* File::parse() by any thread, which then is at the place `then`.
Parse(th, f) == reading' = [reading EXCEPT ![th] = f]

\* Broken: doParse for whoever comes, as if _lastError had not been looked at.
LockAlways(th) ==
  /\ at[th] = "lock"
  /\ holder[reading[th]] = None
  /\ holder' = [holder EXCEPT ![reading[th]] = th]
  /\ parses' = [parses EXCEPT ![reading[th]] = @ + 1]
  /\ toNote' = [toNote EXCEPT ![th] = IF reading[th] \in world.bad THEN {}
                                      ELSE world.sections[reading[th]]]
  /\ Go(th, "note")
  /\ UNCHANGED <<world, tasks, reading, seen, parsed, noted, future,
                 returned, resolver, context>>

(* parse(): with the mutex, doParse unless there is a result.              *)
Lock(th) ==
  /\ at[th] = "lock"
  /\ holder[reading[th]] = None
  /\ IF parsed[reading[th]]
     THEN /\ Go(th, "parsed")
          /\ UNCHANGED <<holder, parses, toNote>>
     ELSE /\ holder' = [holder EXCEPT ![reading[th]] = th]
          /\ parses' = [parses EXCEPT ![reading[th]] = @ + 1]
          /\ toNote' = [toNote EXCEPT ![th] = IF reading[th] \in world.bad THEN {}
                                              ELSE world.sections[reading[th]]]
          /\ Go(th, "note")
  /\ UNCHANGED <<world, tasks, reading, seen, parsed, noted, future,
                 returned, resolver, context>>

(* notifyInputSectionName: an insert into a set other threads insert into. *)
NoteBegin(th) ==
  /\ at[th] = "note"
  /\ toNote[th] # {}
  /\ seen' = [seen EXCEPT ![th] = noted]
  /\ Go(th, "noting")
  /\ UNCHANGED <<world, tasks, reading, toNote, files, noted, future,
                 returned, resolver, context>>

NoteEnd(th) ==
  /\ at[th] = "noting"
  /\ \E s \in toNote[th] :
       /\ noted' = seen[th] \cup {s}
       /\ toNote' = [toNote EXCEPT ![th] = @ \ {s}]
  /\ seen' = [seen EXCEPT ![th] = {}]
  /\ Go(th, "note")
  /\ UNCHANGED <<world, tasks, reading, files, future, returned, resolver,
                 context>>

(* doParse returns: _lastError has a value, the mutex is free.             *)
Unlock(th) ==
  /\ at[th] = "note"
  /\ toNote[th] = {}
  /\ parsed' = [parsed EXCEPT ![reading[th]] = TRUE]
  /\ holder' = [holder EXCEPT ![reading[th]] = None]
  /\ Go(th, "parsed")
  /\ UNCHANGED <<world, tasks, reading, toNote, seen, parses, noted, future,
                 returned, resolver, context>>
-----------------------------------------------------------------------------
(* A worker takes the closure: node->getFile()->parse() for an input file, *)
(* instantiateMember for a member.                                         *)
Start(t) ==
  /\ at[t] = "idle"
  /\ t \in spawned \ finished
  /\ Parse(t, t)
  /\ Go(t, "lock")
  /\ UNCHANGED <<world, tasks, toNote, seen, files, noted, future, returned,
                 resolver, context>>

ParseTaskDone(t) ==
  /\ at[t] = "parsed"
  /\ t \in Inputs
  /\ Pool!Finish(t)
  /\ Go(t, "done")
  /\ reading' = [reading EXCEPT ![t] = None]
  /\ UNCHANGED <<world, toNote, seen, files, noted, future, returned,
                 resolver, context>>

(* future->set(): the value under the future's mutex ...                   *)
FutureSet(t) ==
  /\ at[t] = "parsed"
  /\ t \in Members
  /\ future' = [future EXCEPT ![t] = IF t \in world.bad THEN "null" ELSE "file"]
  /\ Go(t, "notify")
  /\ UNCHANGED <<world, tasks, reading, toNote, seen, files, noted, returned,
                 resolver, context>>

\* Broken: set() does not notify.
NotifyNobody(t) ==
  /\ at[t] = "notify"
  /\ Pool!Finish(t)
  /\ Go(t, "done")
  /\ reading' = [reading EXCEPT ![t] = None]
  /\ UNCHANGED <<world, toNote, seen, files, noted, future, returned,
                 resolver, context>>

(* ... and notify_all after it, with which the closure ends.               *)
FutureNotify(t) ==
  /\ at[t] = "notify"
  /\ Pool!Finish(t)
  /\ at' = [at EXCEPT ![t] = "done",
                      ![Main] = IF @ = "wait" /\ reading[Main] = t
                                THEN "get" ELSE @]
  /\ reading' = [reading EXCEPT ![t] = None]
  /\ UNCHANGED <<world, toNote, seen, files, noted, future, returned,
                 resolver, context>>
-----------------------------------------------------------------------------
(* Driver::link: a parse of each input file is spawned.                    *)
SpawnParse ==
  /\ at[Main] = "spawn"
  /\ pos <= Len(world.inputs)
  /\ Pool!Spawn(Input)
  /\ pos' = pos + 1
  /\ UNCHANGED <<world, at, reading, toNote, seen, files, noted, future,
                 returned, toMap, undefines, next, defined, handled,
                 toPreload, context>>

SpawnDone ==
  /\ at[Main] = "spawn"
  /\ pos > Len(world.inputs)
  /\ pos' = 1
  /\ Go(Main, "map")
  /\ UNCHANGED <<world, tasks, reading, toNote, seen, files, noted, future,
                 returned, toMap, undefines, next, defined, handled,
                 toPreload, context>>

(* updatePreloadArchiveMap goes through the inputs from the last to the    *)
(* first; getDefinedSymbols parses an archive, here.                       *)
MapArchive ==
  /\ at[Main] = "map"
  /\ toMap > 0
  /\ IF world.inputs[toMap] \in Archives
     THEN Parse(Main, world.inputs[toMap]) /\ Go(Main, "lock") /\ UNCHANGED toMap
     ELSE toMap' = toMap - 1 /\ UNCHANGED <<at, reading>>
  /\ UNCHANGED <<world, tasks, toNote, seen, files, noted, future, returned,
                 pos, undefines, next, defined, handled, toPreload, context>>

MapDone ==
  /\ at[Main] = "map"
  /\ toMap = 0
  /\ Go(Main, "file")
  /\ UNCHANGED <<world, tasks, reading, toNote, seen, files, noted, future,
                 returned, resolver, context>>

(* resolveUndefines: the next file's parse(), for the second time if it is *)
(* an archive.                                                             *)
NextFile ==
  /\ at[Main] = "file"
  /\ IF pos <= Len(world.inputs)
     THEN Parse(Main, Input) /\ Go(Main, "lock")
     ELSE UNCHANGED reading /\ Go(Main, "runtime")
  /\ UNCHANGED <<world, tasks, toNote, seen, files, noted, future, returned,
                 resolver, context>>

\* handleFile: definitions first, then each undefined name that is new.
HandleFile(f) ==
  /\ handled' = Append(handled, f)
  /\ defined' = defined \cup world.defs[f]
  /\ toPreload' = world.undefs[f]
  /\ Go(Main, "handle")

(* parse() has returned to the resolver.                                   *)
MapParsed ==
  /\ at[Main] = "parsed"
  /\ toMap > 0
  /\ toMap' = toMap - 1
  /\ reading' = [reading EXCEPT ![Main] = None]
  /\ Go(Main, "map")
  /\ UNCHANGED <<world, tasks, toNote, seen, files, noted, future, returned,
                 pos, undefines, next, defined, handled, toPreload, context>>

FileParsed ==
  /\ at[Main] = "parsed"
  /\ toMap = 0
  /\ reading[Main] \in Objects \cup Archives
  /\ reading' = [reading EXCEPT ![Main] = None]
  /\ pos' = pos + 1
  /\ \/ /\ Input \in world.bad
        /\ Go(Main, "failed")
        /\ UNCHANGED <<handled, defined, toPreload>>
     \/ /\ Input \in Objects \ world.bad
        /\ HandleFile(Input)
     \/ /\ Input \in Archives \ world.bad
        /\ Go(Main, "search")
        /\ UNCHANGED <<handled, defined, toPreload>>
  /\ next' = 1
  /\ UNCHANGED <<world, tasks, toNote, seen, files, noted, future, returned,
                 toMap, undefines, context>>

\* _archiveMap: later archives are entered first, the first one prevails.
MappedMember(n) ==
  LET having == {i \in DOMAIN world.inputs :
                   /\ world.inputs[i] \in Archives \ world.bad
                   /\ world.table[world.inputs[i]][n] # None}
      first == CHOOSE i \in having : \A j \in having : i <= j
  IN  IF having = {} THEN None ELSE world.table[world.inputs[first]][n]

IsNewUndefine(n) ==
  n \notin defined /\ \A i \in DOMAIN undefines : undefines[i] # n

(* doUndefinedAtom, and maybePreloadArchiveMember for a new one: an entry  *)
(* in _preloaded and a task, unless the member was returned or has one.    *)
Preload ==
  LET n == Head(toPreload)
      m == MappedMember(n)
      preload == /\ IsNewUndefine(n) /\ m # None
                 /\ m \notin returned /\ future[m] = "none"
  IN  /\ at[Main] = "handle"
      /\ toPreload # <<>>
      /\ toPreload' = Tail(toPreload)
      /\ undefines' = IF IsNewUndefine(n) THEN Append(undefines, n) ELSE undefines
      /\ IF preload
         THEN future' = [future EXCEPT ![m] = "unset"] /\ Pool!Spawn(m)
         ELSE UNCHANGED <<tasks, future>>
      /\ UNCHANGED <<world, at, reading, toNote, seen, files, noted,
                     returned, pos, toMap, next, defined, handled, context>>

\* handleFile returns to resolveUndefines, or to forEachUndefines.
Handled ==
  /\ at[Main] = "handle"
  /\ toPreload = <<>>
  /\ Go(Main, IF handled[Len(handled)] \in Objects THEN "file" ELSE "search")
  /\ UNCHANGED <<world, tasks, reading, toNote, seen, files, noted, future,
                 returned, resolver, context>>

\* The archive that is searched: pos has gone past it.
Archive == world.inputs[pos - 1]
Found == world.table[Archive][undefines[next]]

(* forEachUndefines: a name that is defined by now, or that the archive    *)
(* does not define, or whose member it has handed out, is passed over.     *)
SearchSkips ==
  /\ at[Main] = "search"
  /\ next <= Len(undefines)
  /\ \/ undefines[next] \in defined
     \/ Found = None
     \/ Found \in returned
  /\ next' = next + 1
  /\ UNCHANGED <<world, tasks, at, reading, toNote, seen, files, noted,
                 future, returned, pos, toMap, undefines, defined, handled,
                 toPreload, context>>

\* Broken: a member that is being preloaded is left for later.
FindSkipsUnset ==
  /\ at[Main] = "search"
  /\ next <= Len(undefines)
  /\ undefines[next] \notin defined
  /\ Found \in Members \ returned
  /\ IF future[Found] = "unset"
     THEN Go(Main, "search") /\ next' = next + 1 /\ UNCHANGED <<returned, reading>>
     ELSE /\ returned' = returned \cup {Found}
          /\ Parse(Main, Found)
          /\ Go(Main, IF future[Found] = "none" THEN "lock" ELSE "get")
          /\ UNCHANGED next
  /\ UNCHANGED <<world, tasks, toNote, seen, files, noted, future, pos, toMap,
                 undefines, defined, handled, toPreload, context>>

(* find(): the member counts as returned from here on; if it has a future, *)
(* get() it, or else instantiate it here.                                  *)
FindMember ==
  /\ at[Main] = "search"
  /\ next <= Len(undefines)
  /\ undefines[next] \notin defined
  /\ Found \in Members \ returned
  /\ returned' = returned \cup {Found}
  /\ Parse(Main, Found)
  /\ Go(Main, IF future[Found] = "none" THEN "lock" ELSE "get")
  /\ UNCHANGED <<world, tasks, toNote, seen, files, noted, future, resolver,
                 context>>

\* What find() returns is handled; nullptr is not looked for again.
FindReturns(file) ==
  /\ IF file = None
     THEN Go(Main, "search") /\ UNCHANGED <<handled, defined, toPreload>>
     ELSE HandleFile(file)
  /\ next' = next + 1
  /\ reading' = [reading EXCEPT ![Main] = None]
  /\ UNCHANGED <<world, tasks, toNote, seen, files, noted, future, returned,
                 pos, toMap, undefines, context>>

MemberParsed ==
  /\ at[Main] = "parsed"
  /\ reading[Main] \in Members
  /\ FindReturns(IF reading[Main] \in world.bad THEN None ELSE reading[Main])

(* Future::get: the value if there is one, or else sleep until notified.   *)
FutureGet ==
  /\ at[Main] = "get"
  /\ future[reading[Main]] # "unset"
  /\ FindReturns(IF future[reading[Main]] = "null" THEN None ELSE reading[Main])

FutureWait ==
  /\ at[Main] = "get"
  /\ future[reading[Main]] = "unset"
  /\ Go(Main, "wait")
  /\ UNCHANGED <<world, tasks, reading, toNote, seen, files, noted, future,
                 returned, resolver, context>>

SearchDone ==
  /\ at[Main] = "search"
  /\ next > Len(undefines)
  /\ Go(Main, "file")
  /\ UNCHANGED <<world, tasks, reading, toNote, seen, files, noted, future,
                 returned, resolver, context>>

(* The last node is the DynamicSymbolFile: it defines __start_S if some    *)
(* section S was noted.  Then an undefined name fails the link.            *)
Runtime ==
  /\ at[Main] = "runtime"
  /\ defined' = defined \cup
                ({undefines[i] : i \in DOMAIN undefines} \cap noted)
  /\ Go(Main, IF \A i \in DOMAIN undefines : undefines[i] \in defined'
              THEN "linked" ELSE "failed")
  /\ UNCHANGED <<world, tasks, reading, toNote, seen, files, noted, future,
                 returned, pos, toMap, undefines, next, handled, toPreload,
                 context>>
-----------------------------------------------------------------------------
(* A failed resolve() is followed by a sync of the task group.             *)
SyncFailed ==
  /\ at[Main] = "failed"
  /\ spawned \subseteq finished
  /\ Go(Main, "leave")
  /\ UNCHANGED <<world, tasks, reading, toNote, seen, files, noted, future,
                 returned, resolver, context>>

(* Otherwise passes and writer run, and the context is destroyed: what the *)
(* derived class has, then _taskGroup, declared last and so destroyed      *)
(* first of the base class's members, then the nodes with the files.       *)
DestroyDerived ==
  /\ at[Main] \in {"linked", "leave"}
  /\ context' = "base"
  /\ Go(Main, "destroy")
  /\ UNCHANGED <<world, tasks, reading, toNote, seen, files, noted, future,
                 returned, resolver>>

\* Broken: _taskGroup declared before the nodes.
DestroyNodesFirst ==
  /\ at[Main] = "destroy"
  /\ context = "base"
  /\ context' = "nothing"
  /\ Go(Main, "gone")
  /\ UNCHANGED <<world, tasks, reading, toNote, seen, files, noted, future,
                 returned, resolver>>

DestroyGroup ==
  /\ at[Main] = "destroy"
  /\ context = "base"
  /\ Pool!Sync(Main)
  /\ context' = "nodes"
  /\ UNCHANGED <<world, at, reading, toNote, seen, files, noted, future,
                 returned, resolver>>

DestroyNodes ==
  /\ at[Main] = "destroy"
  /\ context = "nodes"
  /\ context' = "nothing"
  /\ Go(Main, "gone")
  /\ UNCHANGED <<world, tasks, reading, toNote, seen, files, noted, future,
                 returned, resolver>>

ParseStep(th) == Lock(th) \/ NoteBegin(th) \/ NoteEnd(th) \/ Unlock(th)

TaskStep(t) ==
  Start(t) \/ ParseStep(t) \/ ParseTaskDone(t) \/ FutureSet(t) \/ FutureNotify(t)

MainStep ==
  \/ SpawnParse \/ SpawnDone \/ MapArchive \/ MapDone \/ MapParsed
  \/ NextFile \/ FileParsed \/ Preload \/ Handled
  \/ SearchSkips \/ FindMember \/ MemberParsed \/ SearchDone
  \/ FutureGet \/ FutureWait
  \/ ParseStep(Main)
  \/ Runtime \/ SyncFailed
  \/ DestroyDerived \/ DestroyGroup \/ DestroyNodes

Ended == at[Main] = "gone" /\ finished = spawned /\ UNCHANGED vars

Next == MainStep \/ (\E t \in Tasks : TaskStep(t)) \/ Ended

(* Main is a thread, and every closure in the group is run to its end, as  *)
(* TaskGroup says (and ThreadPool's workers do).                           *)
Fairness == WF_vars(MainStep) /\ \A t \in Tasks : WF_vars(TaskStep(t))

Spec == Init /\ [][Next]_vars
FairSpec == Spec /\ Fairness
-----------------------------------------------------------------------------
\* What Main has linked.
Linked == {handled[i] : i \in DOMAIN handled}

(* A file's atoms are only looked at after the one parse of the file, by   *)
(* whichever thread, has ended: no half-read file, no second doParse, no   *)
(* member instantiated by a task and by find().                            *)
ReadOnceBeforeUse ==
  /\ \A f \in Files : parses[f] <= 1
  /\ \A f \in Linked : parsed[f] /\ f \notin world.bad

(* Preloading changes nothing of what an archive gives: when an archive    *)
(* has been searched, no name that is still undefined has a member in it   *)
(* that could be read and was not linked; and a member is linked once and  *)
(* because an earlier file left a name undefined that its archive has it   *)
(* for, not because it was preloaded.                                      *)
Needed(i) ==
  \E a \in Archives : \E n \in Symbols :
    /\ world.table[a][n] = handled[i]
    /\ \E j \in 1 .. i - 1 : \E k \in DOMAIN world.undefs[handled[j]] :
         world.undefs[handled[j]][k] = n
MembersAsNeeded ==
  /\ \A i, j \in DOMAIN handled : handled[i] = handled[j] => i = j
  /\ \A i \in DOMAIN handled : handled[i] \in Members => Needed(i)
  /\ at[Main] = "file" /\ pos > 1 /\ Archive \in Archives =>
       \A k \in DOMAIN undefines :
         undefines[k] \notin defined =>
           world.table[Archive][undefines[k]] \in Linked \cup world.bad \cup {None}

(* No task is left when the files and futures it works on are destroyed.   *)
FilesOutliveTasks == context = "nothing" => spawned \subseteq finished

(* The link ends, with every task ended: Main does not wait for a future   *)
(* nobody sets, nor for a mutex nobody releases.                           *)
LinkEnds == <>(at[Main] = "gone" /\ spawned = finished)
=============================================================================
