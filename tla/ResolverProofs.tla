--------------------------- MODULE ResolverProofs ---------------------------
(***************************************************************************)
(* Proofs about Resolver: the symbol table has the best definition of each *)
(* name, what a library has been searched for it need not be searched for  *)
(* again, nothing in the result refers to what was coalesced away or       *)
(* stripped, and groups are in it as a whole or not at all.                *)
(***************************************************************************)
EXTENDS Resolver, CommonLemmas, SequenceTheorems

D == DOMAIN link.atom

\* What is known of an atom.
LEMMA AtomFacts ==
  ASSUME link \in Links, NEW a \in D
  PROVE  /\ link.atom[a] \in AtomRecords
         /\ Name(a) \in Names \cup {None} /\ a # None
         /\ link.atom[a].def \in Definitions /\ link.atom[a].merge \in Merges
         /\ link.atom[a].size \in Nat /\ link.atom[a].canBeNull \in 0 .. 2
         /\ Is(a, "undefined") => Name(a) \in Names
         /\ Is(a, "regular") /\ link.atom[a].group = "no" /\ Name(a) # None
              => link.atom[a].merge # "content"
         /\ link.atom[a].fallback # None =>
              /\ link.atom[a].fallback \in D
              /\ Is(link.atom[a].fallback, "undefined")
              /\ link.atom[link.atom[a].fallback].fallback = None
              /\ \A b \in D : link.atom[b].canBeNull = 0
<1>1. link.atom[a] \in AtomRecords /\ D \subseteq Atoms
  BY LinkAssumption DEF D
<1>2. /\ Name(a) \in Names \cup {None}
      /\ link.atom[a].def \in Definitions /\ link.atom[a].merge \in Merges
      /\ link.atom[a].size \in Nat /\ link.atom[a].canBeNull \in 0 .. 2
  BY <1>1 DEF AtomRecords, Name
<1>3. a # None
  BY <1>1, NoneAssumption
<1>4. /\ Is(a, "undefined") => Name(a) # None
      /\ Is(a, "regular") /\ link.atom[a].group = "no" /\ Name(a) # None
           => link.atom[a].merge # "content"
  BY NamedAssumption DEF D, Is, Name
<1>5. link.atom[a].fallback # None =>
        /\ link.atom[a].fallback \in D
        /\ Is(link.atom[a].fallback, "undefined")
        /\ link.atom[link.atom[a].fallback].fallback = None
        /\ \A b \in D : link.atom[b].canBeNull = 0
  BY FallbackAssumption DEF D, Is
<1> QED BY <1>1, <1>2, <1>3, <1>4, <1>5

-----------------------------------------------------------------------------
(* Of two atoms of a name, the one the table keeps is at least as good.    *)

\* The classes are numbers.
LEMMA ClassFacts ==
  ASSUME link \in Links, NEW a \in D
  PROVE  /\ Class(a) \in 0 .. 5
         /\ Class(a) = 0 <=> Is(a, "undefined")
         /\ Class(a) = 1 <=> Is(a, "sharedLibrary")
         /\ Is(a, "absolute") => Class(a) = 5
         /\ Is(a, "regular") =>
              /\ Class(a) >= 2
              /\ Class(a) = 2 <=> link.atom[a].merge = "tentative"
              /\ Class(a) = 3 <=> link.atom[a].merge = "weak"
              /\ Class(a) = 4 <=> link.atom[a].merge = "weakAddress"
              /\ link.atom[a].merge = "no" => Class(a) = 5
         /\ Class(a) = 2 => Is(a, "regular")
<1>1. link.atom[a].def \in Definitions /\ link.atom[a].merge \in Merges
  BY AtomFacts
<1>2. CASE Is(a, "undefined")
  BY <1>2 DEF Class, Is
<1>3. CASE Is(a, "sharedLibrary")
  BY <1>3 DEF Class, Is
<1>4. CASE Is(a, "absolute")
  BY <1>4 DEF Class, Is
<1>5. CASE Is(a, "regular")
  <2>1. Class(a) = [tentative |-> 2, weak |-> 3, weakAddress |-> 4, no |-> 5,
                    sameSize |-> 5, largest |-> 5, content |-> 5][link.atom[a].merge]
    BY <1>5 DEF Class, Is
  <2> QED BY <1>1, <1>5, <2>1 DEF Is, Merges
<1> QED BY <1>1, <1>2, <1>3, <1>4, <1>5 DEF Definitions, Is

LEMMA AtLeastTransitive ==
  ASSUME link \in Links, NEW a \in D, NEW b \in D, NEW c \in D, AtLeast(a, b), AtLeast(b, c)
  PROVE  AtLeast(a, c)
<1>1. \A d \in D : /\ Class(d) \in 0 .. 5
                   /\ link.atom[d].size \in Nat /\ link.atom[d].canBeNull \in 0 .. 2
  BY ClassFacts, AtomFacts
<1> QED BY <1>1 DEF AtLeast

LEMMA AtLeastItself ==
  ASSUME link \in Links, NEW a \in D
  PROVE  AtLeast(a, a)
<1>1. /\ Class(a) \in 0 .. 5
      /\ link.atom[a].size \in Nat /\ link.atom[a].canBeNull \in 0 .. 2
  BY ClassFacts, AtomFacts
<1> QED BY <1>1 DEF AtLeast

\* Both can be in the table for a name.
Nameable(a) == a \in D /\ Name(a) \in Names /\ (Is(a, "regular") => link.atom[a].group = "no")
Sized(a) == Is(a, "regular") /\ link.atom[a].merge \in {"sameSize", "largest"}

\* The row and column of mergeCases decide between two regular atoms.
LEMMA MergeFacts ==
  ASSUME link \in Links, NEW e, NEW a, Nameable(e), Nameable(a),
         Is(e, "regular"), Is(a, "regular"), ~Sized(e), ~Sized(a)
  PROVE  /\ Merge(e, a) \in {"Error", "First", "Second", "Largest"}
         /\ Merge(e, a) = "Error" => Class(e) = 5 /\ Class(a) = 5
         /\ Merge(e, a) = "First" => Class(e) > Class(a) \/ (Class(e) = Class(a) /\ Class(e) # 2)
         /\ Merge(e, a) = "Second" => Class(a) > Class(e)
         /\ Merge(e, a) = "Largest" => Class(e) = 2 /\ Class(a) = 2
<1> DEFINE P == {"no", "tentative", "weak", "weakAddress"}
<1>1. link.atom[e].merge \in P /\ link.atom[a].merge \in P
  BY AtomFacts, NoneAssumption DEF Nameable, Sized, Merges
<1>2. /\ Class(e) = [tentative |-> 2, weak |-> 3, weakAddress |-> 4, no |-> 5][link.atom[e].merge]
      /\ Class(a) = [tentative |-> 2, weak |-> 3, weakAddress |-> 4, no |-> 5][link.atom[a].merge]
  BY <1>1 DEF Class, Is
<1>3. /\ MergeCases["no"] =
           [no |-> "Error", tentative |-> "First", weak |-> "First", weakAddress |-> "First",
            sameSize |-> "SameSize", largest |-> "Largest"]
      /\ MergeCases["tentative"] =
           [no |-> "Second", tentative |-> "Largest", weak |-> "Second", weakAddress |-> "Second",
            sameSize |-> "SameSize", largest |-> "Largest"]
      /\ MergeCases["weak"] =
           [no |-> "Second", tentative |-> "First", weak |-> "First", weakAddress |-> "Second",
            sameSize |-> "SameSize", largest |-> "Largest"]
      /\ MergeCases["weakAddress"] =
           [no |-> "Second", tentative |-> "First", weak |-> "First", weakAddress |-> "First",
            sameSize |-> "SameSize", largest |-> "Largest"]
  BY DEF MergeCases
<1>4. CASE link.atom[e].merge = "no"
  BY <1>1, <1>2, <1>3, <1>4 DEF Merge
<1>5. CASE link.atom[e].merge = "tentative"
  BY <1>1, <1>2, <1>3, <1>5 DEF Merge
<1>6. CASE link.atom[e].merge = "weak"
  BY <1>1, <1>2, <1>3, <1>6 DEF Merge
<1>7. CASE link.atom[e].merge = "weakAddress"
  BY <1>1, <1>2, <1>3, <1>7 DEF Merge
<1> QED BY <1>1, <1>4, <1>5, <1>6, <1>7

(* What SymbolTable::addByName decides, unless sizes alone do.             *)
LEMMA WinnerIsAtLeast ==
  ASSUME link \in Links, NEW e, NEW a, Nameable(e), Nameable(a),
         Sized(e) \/ Sized(a) => ~(Is(e, "regular") /\ Is(a, "regular")),
         ~DuplicateSymbols(e, a)
  PROVE  IF UseNew(e, a) THEN AtLeast(a, e) ELSE AtLeast(e, a)
<1>1. \A d \in {e, a} :
        /\ d \in D /\ Class(d) \in 0 .. 5
        /\ link.atom[d].def \in Definitions
        /\ link.atom[d].size \in Nat /\ link.atom[d].canBeNull \in 0 .. 2
        /\ Class(d) = 0 <=> Is(d, "undefined")
        /\ Class(d) = 1 <=> Is(d, "sharedLibrary")
        /\ Is(d, "absolute") => Class(d) = 5
        /\ Is(d, "regular") =>
              /\ Class(d) >= 2
              /\ Class(d) = 2 <=> link.atom[d].merge = "tentative"
        /\ Class(d) = 2 => Is(d, "regular")
  BY ClassFacts, AtomFacts DEF Nameable
<1>2. CASE Is(e, "regular") /\ Is(a, "regular")
  <2>1. ~Sized(e) /\ ~Sized(a)
    BY <1>2
  <2>2. /\ Merge(e, a) \in {"Error", "First", "Second", "Largest"}
        /\ Merge(e, a) = "Error" => Class(e) = 5 /\ Class(a) = 5
        /\ Merge(e, a) = "First" => Class(e) > Class(a) \/ (Class(e) = Class(a) /\ Class(e) # 2)
        /\ Merge(e, a) = "Second" => Class(a) > Class(e)
        /\ Merge(e, a) = "Largest" => Class(e) = 2 /\ Class(a) = 2
    BY <1>2, <2>1, MergeFacts
  <2>3. UseNew(e, a) <=> \/ Merge(e, a) = "Second"
                         \/ Merge(e, a) = "Largest" /\ link.atom[a].size >= link.atom[e].size
    BY <1>2, <2>2 DEF UseNew, Is
  <2> QED BY <1>1, <1>2, <2>2, <2>3 DEF AtLeast
<1>3. CASE ~(Is(e, "regular") /\ Is(a, "regular")) /\ ~(Is(e, "undefined") /\ Is(a, "undefined"))
  <2>1. UseNew(e, a) <=> \/ Is(e, "undefined") /\ ~Is(a, "undefined")
                         \/ Is(e, "sharedLibrary") /\ (Is(a, "regular") \/ Is(a, "absolute"))
    BY <1>3 DEF UseNew
  <2>2. ~({link.atom[e].def, link.atom[a].def} = {"regular", "absolute"})
        /\ ~({link.atom[e].def, link.atom[a].def} = {"absolute"})
    BY DEF DuplicateSymbols
  <2>3. CASE Is(e, "undefined")
    BY <1>1, <1>3, <2>1, <2>3 DEF AtLeast, Definitions, Is
  <2>4. CASE Is(e, "sharedLibrary")
    BY <1>1, <1>3, <2>1, <2>4 DEF AtLeast, Definitions, Is
  <2>5. CASE Is(e, "absolute")
    BY <1>1, <1>3, <2>1, <2>2, <2>5 DEF AtLeast, Definitions, Is
  <2>6. CASE Is(e, "regular")
    BY <1>1, <1>3, <2>1, <2>2, <2>6 DEF AtLeast, Definitions, Is
  <2> QED BY <1>1, <2>3, <2>4, <2>5, <2>6 DEF Definitions, Is
<1>4. CASE Is(e, "undefined") /\ Is(a, "undefined")
  <2>1. UseNew(e, a) <=>
          \/ link.atom[a].canBeNull < link.atom[e].canBeNull
          \/ link.atom[a].canBeNull = link.atom[e].canBeNull /\ link.atom[a].fallback # None
    BY <1>4 DEF UseNew, Is
  <2> QED BY <1>1, <1>4, <2>1 DEF AtLeast
<1> QED BY <1>2, <1>3, <1>4

-----------------------------------------------------------------------------
(* SymbolTable::add.                                                       *)

\* The parts of the table; an atom stands at its own name.
IsTable(t) ==
  /\ t = [names |-> t.names, groups |-> t.groups,
          contents |-> t.contents, replaced |-> t.replaced]
  /\ t.names \in [Names -> D \cup {None}]
  /\ \A n \in Names : t.names[n] # None => Nameable(t.names[n]) /\ Name(t.names[n]) = n

\* What the table has for c's name is at least as good as c.
Beaten(t, c) == t.names[Name(c)] # None /\ AtLeast(t.names[Name(c)], c)

\* An undefined atom that was replaced would not be chosen again.
ReplacedAreBeaten(t) ==
  \A c \in DOMAIN t.replaced : c \in D /\ Is(c, "undefined") => Beaten(t, c)

HasFallbacks == \E a \in D : link.atom[a].fallback # None

\* An undefined atom of the table can have been replaced by its fallback only.
ReplacedInTable(t) ==
  \A n \in Names :
    t.names[n] # None /\ Is(t.names[n], "undefined") /\ IsCoalescedAway(t, t.names[n])
      => HasFallbacks

GoodTable(t) == IsTable(t) /\ ReplacedAreBeaten(t) /\ ReplacedInTable(t)

\* The three ways of addByName.
LEMMA AddCases ==
  ASSUME link \in Links, NEW t, IsTable(t), NEW a \in D,
         Is(a, "regular") => link.atom[a].group = "no",
         NEW u, u = Add(t, a)
  PROVE  /\ IsTable(u)
         /\ \A n \in Names : n # Name(a) => u.names[n] = t.names[n]
         /\ Name(a) = None =>
              /\ u.names = t.names
              /\ DOMAIN u.replaced = DOMAIN t.replaced
                   \/ DOMAIN u.replaced = DOMAIN t.replaced \cup {a}
         /\ Name(a) # None =>
              LET e == t.names[Name(a)] IN
              /\ e \in {None, a} => u.names[Name(a)] = a /\ u.replaced = t.replaced
              /\ e \notin {None, a} /\ UseNew(e, a) =>
                   u.names[Name(a)] = a /\ DOMAIN u.replaced = DOMAIN t.replaced \cup {e}
              /\ e \notin {None, a} /\ ~UseNew(e, a) =>
                   u.names[Name(a)] = e /\ DOMAIN u.replaced = DOMAIN t.replaced \cup {a}
<1>1. Name(a) \in Names \cup {None} /\ a # None /\ None \notin Names
  BY AtomFacts, NoneAssumption
<1>2. CASE Name(a) = None
  <2>1. \/ u = t
        \/ u = [t EXCEPT !.contents = @ \cup {a}]
        \/ \E e : u = [t EXCEPT !.replaced = Put(@, a, e)]
    BY <1>2 DEF Add, AddByContent
  <2>2. u.names = t.names /\ u = [names |-> u.names, groups |-> u.groups,
                                  contents |-> u.contents, replaced |-> u.replaced]
    BY <2>1 DEF IsTable
  <2>3. \/ DOMAIN u.replaced = DOMAIN t.replaced
        \/ DOMAIN u.replaced = DOMAIN t.replaced \cup {a}
    BY <2>1 DEF IsTable, Put
  <2> QED BY <1>1, <1>2, <2>2, <2>3 DEF IsTable
<1>3. CASE Name(a) # None
  <2> DEFINE n == Name(a)
             e == t.names[n]
  <2>1. n \in Names /\ Nameable(a)
    BY <1>1, <1>3 DEF Nameable
  <2>2. u = AddByName(t, a)
    BY <1>3 DEF Add
  <2>3. CASE e = a
    BY <1>1, <2>1, <2>2, <2>3 DEF AddByName
  <2>4. CASE e = None
    <3>1. u = [t EXCEPT !.names[n] = a]
      BY <1>1, <2>2, <2>4 DEF AddByName
    <3>2. /\ u = [names |-> u.names, groups |-> u.groups,
                  contents |-> u.contents, replaced |-> u.replaced]
          /\ u.names = [t.names EXCEPT ![n] = a] /\ u.replaced = t.replaced
      BY <3>1 DEF IsTable
    <3> QED BY <1>1, <1>3, <2>1, <2>4, <3>2 DEF IsTable
  <2>5. CASE e \notin {None, a} /\ UseNew(e, a)
    <3>1. u = [t EXCEPT !.names[n] = a, !.replaced = Put(@, e, a)]
      BY <2>2, <2>5 DEF AddByName
    <3>2. /\ u = [names |-> u.names, groups |-> u.groups,
                  contents |-> u.contents, replaced |-> u.replaced]
          /\ u.names = [t.names EXCEPT ![n] = a] /\ u.replaced = Put(t.replaced, e, a)
      BY <3>1 DEF IsTable
    <3>3. DOMAIN u.replaced = DOMAIN t.replaced \cup {e}
      BY <3>2 DEF Put
    <3> QED BY <1>1, <1>3, <2>1, <2>5, <3>2, <3>3 DEF IsTable
  <2>6. CASE e \notin {None, a} /\ ~UseNew(e, a)
    <3>1. u = [t EXCEPT !.replaced = Put(@, a, e)]
      BY <2>2, <2>6 DEF AddByName
    <3>2. /\ u = [names |-> u.names, groups |-> u.groups,
                  contents |-> u.contents, replaced |-> u.replaced]
          /\ u.names = t.names /\ u.replaced = Put(t.replaced, a, e)
      BY <3>1 DEF IsTable
    <3>3. DOMAIN u.replaced = DOMAIN t.replaced \cup {a}
      BY <3>2 DEF Put
    <3> QED BY <1>1, <1>3, <2>1, <2>6, <3>2, <3>3 DEF IsTable
  <2> QED BY <2>3, <2>4, <2>5, <2>6
<1> QED BY <1>2, <1>3

(* The atom of the table only gets better.                                 *)
LEMMA AddKeepsBeaten ==
  ASSUME link \in Links, NEW t, IsTable(t), NEW a \in D,
         Is(a, "regular") => link.atom[a].group = "no",
         ~AddFails(t, a), NEW c \in D, Name(c) \in Names,
         \/ Is(c, "undefined")
         \/ Name(c) = Name(a) => ~Sized(a) /\ ~Sized(t.names[Name(c)])
  PROVE  /\ Beaten(t, c) => Beaten(Add(t, a), c)
         /\ c = a => Beaten(Add(t, a), c)
<1> DEFINE u == Add(t, a)
           e == t.names[Name(a)]
<1>1. Name(a) \in Names \cup {None} /\ None \notin Names
  BY AtomFacts, NoneAssumption
<1>2. CASE Name(c) # Name(a)
  <2>1. u.names[Name(c)] = t.names[Name(c)]
    BY <1>2, AddCases
  <2> QED BY <1>2, <2>1 DEF Beaten
<1>3. CASE Name(c) = Name(a) /\ e \in {None, a}
  <2>1. u.names[Name(c)] = a
    BY <1>1, <1>3, AddCases
  <2>2. a # None
    BY AtomFacts
  <2>3. AtLeast(a, a)
    BY AtLeastItself
  <2> QED BY <1>3, <2>1, <2>2, <2>3 DEF Beaten
<1>4. CASE Name(c) = Name(a) /\ e \notin {None, a}
  <2>1. Nameable(e) /\ Name(e) = Name(a) /\ Nameable(a) /\ a # None /\ e \in D
    BY <1>1, <1>4, AtomFacts DEF IsTable, Nameable
  <2>2. ~DuplicateSymbols(e, a)
    BY <1>1, <1>4 DEF AddFails
  <2>3. u.names[Name(c)] = IF UseNew(e, a) THEN a ELSE e
    BY <1>1, <1>4, AddCases
  <2>4. CASE Sized(e) \/ Sized(a) => ~(Is(e, "regular") /\ Is(a, "regular"))
    <3>1. IF UseNew(e, a) THEN AtLeast(a, e) ELSE AtLeast(e, a)
      BY <2>1, <2>2, <2>4, WinnerIsAtLeast
    <3>2. AtLeast(a, a) /\ (AtLeast(a, e) /\ AtLeast(e, c) => AtLeast(a, c))
      BY <2>1, AtLeastItself, AtLeastTransitive
    <3> QED BY <1>4, <2>1, <2>3, <3>1, <3>2 DEF Beaten
  <2>5. CASE Is(c, "undefined") /\ Is(e, "regular") /\ Is(a, "regular")
    <3>1. Class(c) = 0 /\ Class(e) >= 2 /\ Class(a) >= 2 /\ Class(e) \in 0 .. 5 /\ Class(a) \in 0 .. 5
      BY <2>1, <2>5, ClassFacts
    <3>2. AtLeast(e, c) /\ AtLeast(a, c)
      BY <3>1 DEF AtLeast
    <3> QED BY <1>4, <2>1, <2>3, <3>2 DEF Beaten
  <2> QED BY <1>4, <2>4, <2>5
<1> QED BY <1>2, <1>3, <1>4

LEMMA AddIsGood ==
  ASSUME link \in Links, NEW t, GoodTable(t), NEW a \in D,
         Is(a, "regular") => link.atom[a].group = "no", ~AddFails(t, a)
  PROVE  GoodTable(Add(t, a))
<1> DEFINE u == Add(t, a)
           e == t.names[Name(a)]
<1>1. Name(a) \in Names \cup {None} /\ None \notin Names /\ a # None /\ IsTable(t)
  BY AtomFacts, NoneAssumption DEF GoodTable
<1>2. IsTable(u)
  BY <1>1, AddCases
<1>3. Name(a) # None /\ e \notin {None, a} => e \in D /\ Nameable(e) /\ Name(e) = Name(a)
  BY <1>1 DEF IsTable, Nameable
<1>4. ReplacedAreBeaten(u)
  <2> SUFFICES ASSUME NEW c \in DOMAIN u.replaced, c \in D, Is(c, "undefined")
               PROVE  Beaten(u, c)
    BY DEF ReplacedAreBeaten
  <2>1. Name(c) \in Names
    BY AtomFacts
  <2>2. Beaten(t, c) => Beaten(u, c)
    BY <1>1, <2>1, AddKeepsBeaten
  <2>3. CASE c \in DOMAIN t.replaced
    BY <2>2, <2>3 DEF GoodTable, ReplacedAreBeaten
  <2>4. CASE c = a
    BY <1>1, <2>1, <2>4, AddKeepsBeaten
  <2>5. CASE c = e /\ Name(a) # None /\ e \notin {None, a}
    <3>1. AtLeast(e, e)
      BY <1>3, <2>5, AtLeastItself
    <3>2. Beaten(t, c)
      BY <1>3, <2>5, <3>1 DEF Beaten
    <3> QED BY <2>2, <3>2
  <2> QED BY <1>1, <2>3, <2>4, <2>5, AddCases
<1>5. ReplacedInTable(u)
  <2> SUFFICES ASSUME NEW n \in Names, u.names[n] # None, Is(u.names[n], "undefined"),
                      IsCoalescedAway(u, u.names[n])
               PROVE  HasFallbacks
    BY DEF ReplacedInTable
  <2>1. Name(u.names[n]) = n /\ u.names[n] \in D
    BY <1>2 DEF IsTable, Nameable
  <2>2. CASE n # Name(a)
    <3>1. u.names[n] = t.names[n]
      BY <1>1, <2>2, AddCases
    <3>2. u.names[n] # a /\ (Name(a) # None /\ e \notin {None, a} => u.names[n] # e)
      BY <1>3, <2>1, <2>2
    <3>3. IsCoalescedAway(t, t.names[n])
      BY <1>1, <3>1, <3>2, AddCases DEF IsCoalescedAway
    <3> QED BY <3>1, <3>3 DEF GoodTable, ReplacedInTable
  <2>3. CASE n = Name(a) /\ u.names[n] = t.names[n]
    <3>1. n # None
      BY <1>1
    <3>2. IsCoalescedAway(t, t.names[n])
      BY <1>1, <2>3, <3>1, AddCases DEF IsCoalescedAway
    <3> QED BY <2>3, <3>2 DEF GoodTable, ReplacedInTable
  <2>4. CASE n = Name(a) /\ u.names[n] # t.names[n]
    <3>1. n # None
      BY <1>1
    <3>2. u.names[n] = a /\ e # a
      BY <1>1, <2>4, <3>1, AddCases
    <3>3. a \in DOMAIN t.replaced
      BY <1>1, <2>4, <3>1, <3>2, AddCases DEF IsCoalescedAway
    <3>4. Beaten(t, a)
      BY <3>2, <3>3 DEF GoodTable, ReplacedAreBeaten
    <3>5. e # None /\ AtLeast(e, a) /\ UseNew(e, a)
      BY <1>1, <2>4, <3>1, <3>2, <3>4, AddCases DEF Beaten
    <3>6. /\ link.atom[e].canBeNull \in 0 .. 2 /\ link.atom[a].canBeNull \in 0 .. 2
          /\ Class(e) \in 0 .. 5 /\ Class(a) = 0 /\ (Class(e) = 0 <=> Is(e, "undefined"))
      BY <1>3, <2>4, <3>1, <3>2, <3>5, AtomFacts, ClassFacts
    <3>7. Is(e, "undefined")
      BY <3>2, <3>5 DEF UseNew, Is
    <3>8. link.atom[e].canBeNull <= link.atom[a].canBeNull
      BY <3>5, <3>6, <3>7 DEF AtLeast
    <3>9. link.atom[a].fallback # None
      BY <3>2, <3>5, <3>6, <3>7, <3>8 DEF UseNew, Is
    <3> QED BY <3>9 DEF HasFallbacks
  <2> QED BY <2>2, <2>3, <2>4
<1> QED BY <1>2, <1>4, <1>5 DEF GoodTable

-----------------------------------------------------------------------------
(* Which names are undefined.                                              *)

\* IsUndefinedName, of any table.
Wanted(t, n) == t.names[n] # None /\ Is(t.names[n], "undefined") /\ ~IsCoalescedAway(t, t.names[n])

\* A name that is defined or was given to its fallback is not undefined again,
\* but for an atom whose own fallback is about to take its place.
LEMMA AddWanted ==
  ASSUME link \in Links, NEW t, GoodTable(t), NEW a \in D,
         Is(a, "regular") => link.atom[a].group = "no",
         NEW u, u = Add(t, a), NEW n \in Names
  PROVE  /\ t.names[n] # None => u.names[n] # None
         /\ u.names[n] # t.names[n] => n = Name(a) /\ u.names[n] = a
         /\ Wanted(u, n) =>
              \/ t.names[n] = None
              \/ Wanted(t, n)
              \/ n = Name(a) /\ u.names[n] = a /\ link.atom[a].fallback # None
<1> DEFINE e == t.names[Name(a)]
<1>1. Name(a) \in Names \cup {None} /\ None \notin Names /\ a # None /\ IsTable(t)
  BY AtomFacts, NoneAssumption DEF GoodTable
<1>2. /\ t.names[n] # None => u.names[n] # None
      /\ u.names[n] # t.names[n] => n = Name(a) /\ u.names[n] = a
  BY <1>1, AddCases
<1>3. ASSUME Wanted(u, n), t.names[n] # None, ~Wanted(t, n)
      PROVE  n = Name(a) /\ u.names[n] = a /\ link.atom[a].fallback # None
  <2>1. DOMAIN t.replaced \subseteq DOMAIN u.replaced
    BY <1>1, AddCases
  <2>2. u.names[n] # t.names[n]
    BY <1>3, <2>1 DEF Wanted, IsCoalescedAway
  <2>3. n = Name(a) /\ u.names[n] = a /\ e # a /\ e # None
    BY <1>2, <1>3, <2>2
  <2>4. UseNew(e, a) /\ Is(a, "undefined")
    BY <1>1, <1>3, <2>3, AddCases DEF Wanted
  <2>5. Is(e, "undefined")
    BY <2>4 DEF UseNew, Is
  <2>6. IsCoalescedAway(t, e)
    BY <1>3, <2>3, <2>5 DEF Wanted
  <2>7. HasFallbacks
    BY <2>3, <2>5, <2>6 DEF GoodTable, ReplacedInTable
  <2>8. e \in D /\ link.atom[e].canBeNull = 0 /\ link.atom[a].canBeNull = 0
    BY <1>1, <2>3, <2>7, AtomFacts DEF HasFallbacks, IsTable, Nameable
  <2> QED BY <2>3, <2>4, <2>5, <2>8 DEF UseNew, Is
<1> QED BY <1>2, <1>3

\* What a shared library exports settles a name.
LEMMA AddShared ==
  ASSUME link \in Links, NEW t, GoodTable(t), NEW a \in D, Is(a, "sharedLibrary"),
         Name(a) \in Names
  PROVE  ~Wanted(Add(t, a), Name(a))
<1>1. ~Is(a, "undefined") /\ ~Is(a, "regular") /\ a # None /\ None \notin Names
  BY AtomFacts, NoneAssumption DEF Is
<1>2. \A e : Is(e, "undefined") => UseNew(e, a)
  BY <1>1 DEF UseNew
<1> QED BY <1>1, <1>2, AddCases DEF GoodTable, Wanted

\* The table holds what was added, K, and has the best of it.
HoldsIn(t, K) == \A n \in Names : t.names[n] # None => t.names[n] \in K
BestIn(t, K) ==
  \A c \in K : IsNamed(c) /\ ~(\E d \in K : Name(d) = Name(c) /\ Sized(d)) => Beaten(t, c)

LEMMA AddBest ==
  ASSUME link \in Links, NEW t, GoodTable(t), NEW K \in SUBSET D, HoldsIn(t, K), BestIn(t, K),
         NEW a \in D, Is(a, "regular") => link.atom[a].group = "no", ~AddFails(t, a)
  PROVE  HoldsIn(Add(t, a), K \cup {a}) /\ BestIn(Add(t, a), K \cup {a})
<1> DEFINE u == Add(t, a)
<1>1. IsTable(t)
  BY DEF GoodTable
<1>2. HoldsIn(u, K \cup {a})
  <2> SUFFICES ASSUME NEW n \in Names, u.names[n] # None PROVE u.names[n] \in K \cup {a}
    BY DEF HoldsIn
  <2>1. u.names[n] # t.names[n] => u.names[n] = a
    BY AddWanted
  <2> QED BY <2>1 DEF HoldsIn
<1>3. BestIn(u, K \cup {a})
  <2> SUFFICES ASSUME NEW c \in K \cup {a}, IsNamed(c),
                      ~(\E d \in K \cup {a} : Name(d) = Name(c) /\ Sized(d))
               PROVE  Beaten(u, c)
    BY DEF BestIn
  <2>1. c \in D /\ Name(c) \in Names
    BY AtomFacts DEF IsNamed
  <2>2. Name(c) = Name(a) => ~Sized(a)
    OBVIOUS
  <2>3. CASE t.names[Name(c)] = None
    <3>1. c \notin K
      BY <2>3 DEF BestIn, Beaten
    <3>2. c = a /\ Name(a) \in Names
      BY <2>1, <3>1
    <3>3. u.names[Name(a)] = a /\ a # None
      BY <1>1, <2>3, <3>2, AddCases, AtomFacts, NoneAssumption
    <3>4. AtLeast(a, a)
      BY AtLeastItself
    <3> QED BY <3>2, <3>3, <3>4 DEF Beaten
  <2>4. CASE t.names[Name(c)] # None
    <3>1. t.names[Name(c)] \in K /\ Name(t.names[Name(c)]) = Name(c)
      BY <1>1, <2>1, <2>4 DEF HoldsIn, IsTable
    <3>2. ~Sized(t.names[Name(c)])
      BY <3>1
    <3>3. /\ Beaten(t, c) => Beaten(u, c)
          /\ c = a => Beaten(u, c)
      BY <1>1, <2>1, <2>2, <3>2, AddKeepsBeaten
    <3> QED BY <3>3 DEF BestIn
  <2> QED BY <2>3, <2>4
<1> QED BY <1>2, <1>3

-----------------------------------------------------------------------------
(* doUndefinedAtom.                                                        *)

\* Undefined atoms can always be added.
LEMMA UndefinedNeverFails ==
  ASSUME NEW t, NEW a, Is(a, "undefined")
  PROVE  ~AddFails(t, a)
BY DEF AddFails, DuplicateSymbols, Is

\* The table after an atom gave way to its fallback.
FallBack(t, a, b) == [Add(Add(t, a), b) EXCEPT !.replaced = Put(@, a, b)]

LEMMA FallBackIsGood ==
  ASSUME link \in Links, NEW t, GoodTable(t), NEW a \in D, Is(a, "undefined"),
         NEW b, b = link.atom[a].fallback, b # None, ~IsDefinedName(Add(t, a), Name(a)),
         NEW t1, t1 = Add(t, a), NEW u, u = FallBack(t, a, b)
  PROVE  /\ GoodTable(u) /\ GoodTable(t1) /\ b \in D /\ Is(b, "undefined")
         /\ u.names = Add(t1, b).names
         /\ \A n \in Names :
              /\ t.names[n] # None => u.names[n] # None
              /\ t.names[n] = None /\ u.names[n] # None =>
                   n = Name(a) \/ (n = Name(b) /\ t1.names[n] = None)
              /\ Wanted(u, n) => t.names[n] = None \/ Wanted(t, n)
<1> DEFINE t2 == Add(t1, b)
<1>1. /\ b \in D /\ Is(b, "undefined") /\ link.atom[b].fallback = None
      /\ \A c \in D : link.atom[c].canBeNull = 0
  BY AtomFacts
<1>2. ~Is(a, "regular") /\ ~Is(b, "regular") /\ Name(a) \in Names
  BY <1>1, AtomFacts DEF Is
<1>3. GoodTable(t1)
  BY <1>2, AddIsGood, UndefinedNeverFails
<1>4. GoodTable(t2)
  BY <1>1, <1>2, <1>3, AddIsGood, UndefinedNeverFails
<1>5. /\ u = [t2 EXCEPT !.replaced = Put(@, a, b)]
      /\ u.names = t2.names /\ u.replaced = Put(t2.replaced, a, b)
      /\ u = [names |-> u.names, groups |-> u.groups, contents |-> u.contents, replaced |-> u.replaced]
  BY <1>4 DEF FallBack, GoodTable, IsTable
<1>6. DOMAIN u.replaced = DOMAIN t2.replaced \cup {a}
  BY <1>5 DEF Put
<1>7. GoodTable(u)
  <2>1. IsTable(u)
    BY <1>4, <1>5 DEF GoodTable, IsTable
  <2>2. Beaten(t1, a)
    BY <1>2, AddKeepsBeaten, UndefinedNeverFails DEF GoodTable
  <2>3. Beaten(t2, a)
    BY <1>1, <1>2, <1>3, <2>2, AddKeepsBeaten, UndefinedNeverFails DEF GoodTable
  <2>4. ReplacedAreBeaten(u)
    BY <1>4, <1>5, <1>6, <2>3 DEF GoodTable, ReplacedAreBeaten, Beaten
  <2>5. ReplacedInTable(u)
    BY DEF ReplacedInTable, HasFallbacks
  <2> QED BY <2>1, <2>4, <2>5 DEF GoodTable
<1>8. ASSUME NEW n \in Names
      PROVE  /\ t.names[n] # None => u.names[n] # None
             /\ t.names[n] = None /\ u.names[n] # None =>
                   n = Name(a) \/ (n = Name(b) /\ t1.names[n] = None)
             /\ Wanted(u, n) => t.names[n] = None \/ Wanted(t, n)
  <2>1. /\ t.names[n] # None => t1.names[n] # None
        /\ t1.names[n] # t.names[n] => n = Name(a) /\ t1.names[n] = a
        /\ Wanted(t1, n) => t.names[n] = None \/ Wanted(t, n) \/ (n = Name(a) /\ t1.names[n] = a)
    BY <1>2, AddWanted
  <2>2. /\ t1.names[n] # None => t2.names[n] # None
        /\ t2.names[n] # t1.names[n] => n = Name(b) /\ t2.names[n] = b
        /\ Wanted(t2, n) => t1.names[n] = None \/ Wanted(t1, n)
    BY <1>1, <1>2, <1>3, AddWanted
  <2>3. ASSUME Wanted(u, n), t.names[n] # None, ~Wanted(t, n) PROVE FALSE
    <3>1. u.names[n] # a /\ Wanted(t2, n)
      BY <1>5, <1>6, <2>3 DEF Wanted, IsCoalescedAway
    <3>2. t1.names[n] # None /\ Wanted(t1, n) /\ t1.names[n] = a /\ t2.names[n] # a
      BY <1>5, <2>1, <2>2, <2>3, <3>1
    <3>3. n = Name(b) /\ t2.names[n] = b /\ b # a /\ a # None
      BY <2>2, <3>2
    <3>4. UseNew(a, b)
      BY <1>1, <1>2, <1>3, <3>2, <3>3, AddCases, NoneAssumption DEF GoodTable
    <3> QED BY <1>1, <3>4 DEF UseNew, Is
  <2> QED BY <1>5, <2>1, <2>2, <2>3
<1> QED BY <1>1, <1>3, <1>5, <1>7, <1>8

-----------------------------------------------------------------------------
(* The inductive invariant.                                                *)

Running == {"next", "handle", "undefs", "tents", "refs", "mark", "check"}

Typed ==
  /\ link \in Links /\ phase \in Running \cup Stopped
  /\ index \in Nat \ {0}
  /\ lib \in Libraries \cup {None}
  /\ todo \in Seq(D)
  /\ back \in {"next", "undefs", "tents"}
  /\ scan \in Nat /\ tents \subseteq Names
  /\ Collecting => atoms \in SUBSET D
  /\ undefines \in Seq(Names \cup {None})
  /\ undefIndex \in [Files -> Nat]

\* A library is at hand when forEachUndefines runs, and when handleFile is
\* called from it.
Calls ==
  /\ phase = "next" => lib = None
  /\ phase \in {"undefs", "tents"} => lib # None
  /\ lib # None => back # "next"

\* The table holds what was added.
Holds == Collecting => \A n \in Names : symtab.names[n] # None => symtab.names[n] \in atoms

\* The list has every name that is undefined, and only names of the table.
Listed == /\ \A n \in Names : IsUndefinedName(n) => n \in ToSet(undefines)
          /\ \A i \in DOMAIN undefines :
               undefines[i] # None => symtab.names[undefines[i]] # None

\* f has nothing for the i-th undefine.
Done(f, i) ==
  undefines[i] # None /\ IsUndefinedName(undefines[i]) => ~Offers(f, undefines[i])

\* What the shared library has for the undefine just looked at is being added.
Awaited ==
  /\ phase = "handle" /\ lib # None /\ link.kind[lib] = "shared"
  /\ scan \in 1 .. Len(undefines)
  /\ undefines[scan] # None /\ link.exports[lib][undefines[scan]] # None
  /\ todo = <<link.exports[lib][undefines[scan]]>>

\* Each library has nothing for the names it was searched for; the one that is
\* searched now, for those it has gone past.
Searched ==
  /\ \A f \in Files : undefIndex[f] <= Len(undefines)
  /\ \A f \in Libraries \ {lib} : \A i \in 1 .. undefIndex[f] : Done(f, i)
  /\ lib # None =>
       /\ scan <= Len(undefines)
       /\ \A i \in 1 .. scan : Done(lib, i) \/ (i = scan /\ Awaited)

Inv == /\ Typed /\ Calls /\ GoodTable(symtab)
       /\ Holds /\ BestDefinitionWins /\ Listed /\ Searched

LEMMA BestIsBestIn ==
  BestDefinitionWins <=> (Collecting => BestIn(symtab, atoms))
BY DEF BestDefinitionWins, BestIn, BySize, Sized, Beaten

LEMMA WantedIs ==
  ASSUME NEW n
  PROVE  IsUndefinedName(n) <=> Wanted(symtab, n)
BY DEF IsUndefinedName, Wanted

LEMMA LinkFacts ==
  ASSUME Inv
  PROVE  /\ link \in Links /\ IsFiniteSet(D) /\ None \notin Names /\ None \notin Files
         /\ \A f \in Files : link.atoms[f] \in Seq(D)
         /\ link.nodes \in Seq([end : Nat, file : Files \cup {None}])
         /\ AtNode => /\ link.nodes[index].end = 0 => link.nodes[index].file \in Files
                      /\ link.nodes[index].end > 0 => link.nodes[index].end \in 1 .. index - 1
                      /\ link.nodes[index].end \in Nat
         /\ Collecting => atoms \in SUBSET D
<1>1. link \in Links /\ index \in Nat \ {0} /\ (Collecting => atoms \in SUBSET D)
  BY DEF Inv, Typed
<1>2. /\ IsFiniteSet(D) /\ \A f \in Files : link.atoms[f] \in Seq(D)
      /\ link.nodes \in Seq([end : Nat, file : Files \cup {None}])
      /\ \A i \in DOMAIN link.nodes : \/ link.nodes[i].end = 0 /\ link.nodes[i].file \in Files
                                      \/ link.nodes[i].end \in 1 .. i - 1
  BY <1>1, LinkAssumption DEF D
<1>3. AtNode => index \in DOMAIN link.nodes /\ link.nodes[index].end \in Nat
  BY <1>1, <1>2, LenProperties, ElementOfSeq DEF AtNode
<1>4. Collecting => atoms \in SUBSET D
  BY <1>1
<1> QED BY <1>1, <1>2, <1>3, <1>4, NoneAssumption

LEMMA InitInv == Init => Inv
<1> SUFFICES ASSUME Init PROVE Inv
  OBVIOUS
<1> USE DEF Init
<1>1. Typed
  BY DEF Typed, Running
<1>2. Calls
  BY DEF Calls
<1>3. GoodTable(symtab)
  <2>1. IsTable(symtab)
    BY DEF IsTable
  <2>2. DOMAIN symtab.replaced = {}
    OBVIOUS
  <2> QED BY <2>1, <2>2 DEF GoodTable, ReplacedAreBeaten, ReplacedInTable, IsCoalescedAway
<1>4. Holds
  BY DEF Holds
<1>5. BestDefinitionWins
  <2>1. atoms = {}
    OBVIOUS
  <2> QED BY <2>1 DEF BestDefinitionWins
<1>6. Listed
  BY DEF Listed, IsUndefinedName
<1>7. Searched
  <2>1. Len(undefines) = 0 /\ \A f \in Files : undefIndex[f] = 0
    OBVIOUS
  <2> QED BY <2>1 DEF Searched, Libraries
<1> QED BY <1>1, <1>2, <1>3, <1>4, <1>5, <1>6, <1>7 DEF Inv

\* What a library has nothing for, it has nothing for afterwards.
LEMMA DoneKept ==
  ASSUME Inv, link' = link, taken \subseteq taken',
         NEW f \in Libraries, NEW i \in DOMAIN undefines,
         undefines'[i] = undefines[i] \/ undefines'[i] = None,
         \A n \in Names : IsUndefinedName(n)' => symtab.names[n] = None \/ IsUndefinedName(n),
         Done(f, i)
  PROVE  Done(f, i)'
<1>1. CASE undefines'[i] = None
  BY <1>1 DEF Done
<1>2. CASE undefines'[i] # None
  <2>1. PICK n \in Names : n = undefines[i] /\ n = undefines'[i]
    BY <1>2, ElementOfSeq, LenProperties DEF Inv, Typed
  <2>2. ASSUME IsUndefinedName(n)' PROVE ~Offers(f, n)'
    <3>1. IsUndefinedName(n)
      BY <1>2, <2>1, <2>2 DEF Inv, Listed
    <3>2. ~Offers(f, n)
      BY <1>2, <2>1, <3>1 DEF Done
    <3> QED BY <3>2 DEF Offers, Find
  <2> QED BY <2>1, <2>2 DEF Done
<1> QED BY <1>1, <1>2

-----------------------------------------------------------------------------
(* Steps that leave the tables alone.                                      *)

LEMMA TablesKept ==
  ASSUME Inv, link' = link, symtab' = symtab, Collecting' => Collecting /\ atoms' = atoms
  PROVE  /\ GoodTable(symtab)' /\ Holds' /\ BestDefinitionWins'
         /\ \A n \in Names : IsUndefinedName(n)' <=> IsUndefinedName(n)
<1>1. D' = D /\ \A a : (Nameable(a)' <=> Nameable(a)) /\ Name(a)' = Name(a)
  BY DEF D, Nameable, Name, Is
<1>2. \A a, b : AtLeast(a, b)' <=> AtLeast(a, b)
  BY DEF AtLeast, Class, Is
<1>3. GoodTable(symtab)'
  BY <1>1, <1>2 DEF Inv, GoodTable, IsTable, ReplacedAreBeaten, ReplacedInTable, Beaten,
                    HasFallbacks, IsCoalescedAway, Is, Name
<1>4. Holds'
  BY DEF Inv, Holds
<1>5. BestDefinitionWins'
  BY <1>2 DEF Inv, BestDefinitionWins, IsNamed, BySize, Name, Is
<1>6. \A n \in Names : IsUndefinedName(n)' <=> IsUndefinedName(n)
  BY DEF IsUndefinedName, IsCoalescedAway, Is
<1> QED BY <1>3, <1>4, <1>5, <1>6

LEMMA QuietStep ==
  ASSUME Inv, Typed', Calls', link' = link, symtab' = symtab, undefines' = undefines,
         undefIndex' = undefIndex, lib' = lib, scan' = scan, taken \subseteq taken',
         Awaited => Awaited', Collecting' => Collecting /\ atoms' = atoms
  PROVE  Inv'
<1>1. /\ GoodTable(symtab)' /\ Holds' /\ BestDefinitionWins'
      /\ \A n \in Names : IsUndefinedName(n)' <=> IsUndefinedName(n)
  BY TablesKept
<1>2. Listed'
  BY <1>1 DEF Inv, Listed
<1>3. ASSUME NEW f \in Libraries, NEW i \in DOMAIN undefines, Done(f, i) PROVE Done(f, i)'
  BY <1>1, <1>3, DoneKept
<1>4. Searched'
  <2>1. Libraries' = Libraries /\ DOMAIN undefines = 1 .. Len(undefines) /\ Len(undefines) \in Nat
        /\ scan \in Nat /\ \A f \in Files : undefIndex[f] \in Nat
    BY LenProperties DEF Libraries, Inv, Typed
  <2>2. ASSUME NEW f \in Libraries \ {lib}, NEW i \in 1 .. undefIndex[f] PROVE Done(f, i)'
    <3>1. f \in Files /\ undefIndex[f] <= Len(undefines) /\ Done(f, i)
      BY DEF Inv, Searched, Libraries
    <3> QED BY <1>3, <2>1, <3>1
  <2>3. ASSUME lib # None, NEW i \in 1 .. scan
        PROVE  Done(lib, i)' \/ (i = scan /\ Awaited')
    <3>1. lib \in Libraries /\ scan <= Len(undefines) /\ (Done(lib, i) \/ (i = scan /\ Awaited))
      BY <2>3 DEF Inv, Searched, Typed
    <3>2. Done(lib, i) => Done(lib, i)'
      <4>1. i \in DOMAIN undefines
        BY <2>1, <3>1
      <4>2. ASSUME NEW f \in Libraries, f = lib, Done(f, i) PROVE Done(f, i)'
        BY <1>3, <4>1, <4>2
      <4> QED BY <3>1, <4>2 DEF Done, Offers, Find
    <3> QED BY <3>1, <3>2
  <2> QED BY <2>1, <2>2, <2>3 DEF Inv, Searched
<1> QED BY <1>1, <1>2, <1>4 DEF Inv

(* Going from node to node and from loop to loop.                          *)
LEMMA BetweenFilesInv ==
  ASSUME Inv, EndGroup \/ CannotOpen \/ NextObject \/ NodesDone \/ FileDone \/ UndefinesDone \/ SearchAgain
  PROVE  Inv'
<1> USE DEF reading, searching, tables, stripping
<1>1. Typed /\ Calls
  BY DEF Inv
<1>2. CASE EndGroup
  <2>1. Typed' /\ Calls'
    <3>1. index' \in Nat \ {0}
      <4>1. link.nodes[index].end \in 1 .. index - 1 /\ index \in Nat \ {0}
        BY <1>1, <1>2, LinkFacts DEF EndGroup, Typed
      <4>2. index' = index - link.nodes[index].end \/ index' = index + 1
        BY <1>2 DEF EndGroup
      <4> QED BY <4>1, <4>2
    <3> QED BY <1>1, <1>2, <3>1 DEF EndGroup, Collecting, Typed, Calls, D, Libraries
  <2> QED BY <1>2, <2>1, QuietStep DEF EndGroup, Awaited, AtNode, Collecting
<1>3. CASE CannotOpen
  <2>1. Typed' /\ Calls'
    BY <1>1, <1>3 DEF CannotOpen, Collecting, Typed, Calls, D, Libraries, Stopped
  <2> QED BY <1>3, <2>1, QuietStep DEF CannotOpen, Awaited, AtNode, Collecting
<1>4. CASE NextObject
  <2>1. link.atoms[link.nodes[index].file] \in Seq(D)
    BY <1>4, LinkFacts DEF NextObject, AtFile
  <2>2. Typed' /\ Calls'
    BY <1>1, <1>4, <2>1 DEF NextObject, Collecting, Typed, Calls, D, Libraries, Running, AtFile, AtNode
  <2> QED BY <1>4, <2>2, QuietStep DEF NextObject, AtFile, Awaited, AtNode, Collecting
<1>5. CASE NodesDone
  <2>1. Typed' /\ Calls'
    BY <1>1, <1>5 DEF NodesDone, Collecting, Typed, Calls, D, Libraries, Running
  <2> QED BY <1>5, <2>1, QuietStep DEF NodesDone, Awaited, Collecting
<1>6. CASE FileDone
  <2>1. Typed' /\ Calls'
    BY <1>1, <1>6 DEF FileDone, Collecting, Typed, Calls, D, Libraries, Running
  <2>2. ~Awaited
    BY <1>6 DEF FileDone, Awaited
  <2> QED BY <1>1, <1>6, <2>1, <2>2, QuietStep DEF FileDone, Collecting, Typed
<1>7. CASE UndefinesDone
  <2>1. Typed' /\ Calls'
    BY <1>1, <1>7 DEF UndefinesDone, Collecting, Typed, Calls, D, Libraries, Running
  <2> QED BY <1>7, <2>1, QuietStep DEF UndefinesDone, Awaited, Collecting
<1>8. CASE SearchAgain
  <2>1. Typed' /\ Calls'
    BY <1>1, <1>8 DEF SearchAgain, Collecting, Typed, Calls, D, Libraries, Running
  <2> QED BY <1>8, <2>1, QuietStep DEF SearchAgain, Awaited, Collecting
<1> QED BY <1>2, <1>3, <1>4, <1>5, <1>6, <1>7, <1>8

(* What follows once the files have been read.                             *)
LEMMA AfterFilesInv ==
  ASSUME Inv, \/ UpdateReferences \/ MarkLive \/ DeadStripped \/ UndefinesLeft \/ Resolved
              \/ UNCHANGED vars
  PROVE  Inv'
<1> USE DEF reading, searching, tables, stripping
<1>1. Typed /\ Calls
  BY DEF Inv
<1>2. CASE UpdateReferences
  <2>1. phase = "refs" /\ phase' \in {"hang", "mark", "check"}
    BY <1>2 DEF UpdateReferences
  <2>2. Typed' /\ Calls'
    BY <1>1, <1>2, <2>1 DEF UpdateReferences, Collecting, Typed, Calls, D, Libraries, Running, Stopped
  <2> QED BY <1>2, <2>1, <2>2, QuietStep DEF UpdateReferences, Awaited, Collecting
<1>3. CASE MarkLive
  <2>1. Typed' /\ Calls'
    BY <1>1, <1>3 DEF MarkLive, Collecting, Typed, Calls, D, Libraries
  <2> QED BY <1>3, <2>1, QuietStep DEF MarkLive, Awaited, Collecting
<1>4. CASE DeadStripped
  <2>1. Typed' /\ Calls'
    BY <1>1, <1>4 DEF DeadStripped, Typed, Calls, D, Libraries, Running, Collecting
  <2> QED BY <1>4, <2>1, QuietStep DEF DeadStripped, Awaited, Collecting
<1>5. CASE UndefinesLeft
  <2>1. Typed' /\ Calls'
    BY <1>1, <1>5 DEF UndefinesLeft, Collecting, Typed, Calls, D, Libraries, Stopped
  <2> QED BY <1>5, <2>1, QuietStep DEF UndefinesLeft, Awaited, Collecting
<1>6. CASE Resolved
  <2>1. Typed' /\ Calls'
    BY <1>1, <1>6 DEF Resolved, Typed, Calls, D, Libraries, Stopped, Collecting
  <2> QED BY <1>6, <2>1, QuietStep DEF Resolved, Awaited, Collecting
<1>7. CASE UNCHANGED vars
  <2>1. Typed' /\ Calls'
    BY <1>1, <1>7 DEF vars, Collecting, Typed, Calls, D, Libraries
  <2> QED BY <1>7, <2>1, QuietStep DEF vars, Awaited, Collecting
<1> QED BY <1>2, <1>3, <1>4, <1>5, <1>6, <1>7

-----------------------------------------------------------------------------
(* Searching a library.                                                    *)

\* An entry of the list that is cleared is no longer asked for.
LEMMA SearchKept ==
  ASSUME Inv, link' = link, symtab' = symtab, taken \subseteq taken',
         \A i \in DOMAIN undefines : undefines'[i] = undefines[i] \/ undefines'[i] = None,
         Collecting' => Collecting /\ atoms' = atoms
  PROVE  /\ Libraries' = Libraries /\ DOMAIN undefines = 1 .. Len(undefines)
         /\ Len(undefines) \in Nat /\ scan \in Nat /\ \A f \in Files : undefIndex[f] \in Nat
         /\ \A f \in Libraries : \A i \in DOMAIN undefines : Done(f, i) => Done(f, i)'
<1>1. \A n \in Names : IsUndefinedName(n)' <=> IsUndefinedName(n)
  BY TablesKept
<1>2. ASSUME NEW f \in Libraries, NEW i \in DOMAIN undefines, Done(f, i) PROVE Done(f, i)'
  BY <1>1, <1>2, DoneKept
<1>3. /\ Libraries' = Libraries /\ DOMAIN undefines = 1 .. Len(undefines)
      /\ Len(undefines) \in Nat /\ scan \in Nat /\ \A f \in Files : undefIndex[f] \in Nat
  BY LenProperties DEF Libraries, Inv, Typed
<1> QED BY <1>2, <1>3

LEMMA NextLibraryInv ==
  ASSUME Inv, NextLibrary
  PROVE  Inv'
<1> USE DEF reading, searching, tables, stripping
<1> DEFINE f == link.nodes[index].file
<1>1. /\ f \in Files /\ f \in Libraries /\ AtNode /\ phase = "next" /\ lib = None
      /\ link' = link /\ symtab' = symtab /\ undefines' = undefines /\ atoms' = atoms
      /\ undefIndex' = undefIndex /\ taken' = taken
      /\ lib' = f /\ scan' = undefIndex[f] /\ todo' = link.atoms[f]
      /\ phase' \in {"handle", "undefs"} /\ back' = "undefs"
  BY LinkFacts DEF NextLibrary, AtFile, AtNode, Libraries, Inv, Calls
<1>2. /\ GoodTable(symtab)' /\ Holds' /\ BestDefinitionWins'
      /\ \A n \in Names : IsUndefinedName(n)' <=> IsUndefinedName(n)
  BY <1>1, TablesKept DEF Collecting
<1>3. Typed' /\ Calls'
  <2>1. link.atoms[f] \in Seq(D) /\ f # None
    BY <1>1, LinkFacts
  <2>2. scan' \in Nat /\ index' \in Nat \ {0} /\ tents' = tents /\ phase' # "next"
    BY <1>1 DEF Inv, Typed, NextLibrary
  <2> QED BY <1>1, <2>1, <2>2 DEF Inv, Typed, Calls, D, Libraries, Running, Collecting
<1>4. Listed'
  BY <1>1, <1>2 DEF Inv, Listed
<1>5. Searched'
  <2>1. /\ Libraries' = Libraries /\ DOMAIN undefines = 1 .. Len(undefines)
        /\ Len(undefines) \in Nat /\ scan \in Nat /\ \A g \in Files : undefIndex[g] \in Nat
        /\ \A g \in Libraries : \A i \in DOMAIN undefines : Done(g, i) => Done(g, i)'
    BY <1>1, SearchKept DEF Collecting
  <2>2. ASSUME NEW g \in Libraries, NEW i \in 1 .. undefIndex[g] PROVE Done(g, i)'
    <3>1. g \in Files /\ g # None /\ undefIndex[g] <= Len(undefines)
      BY LinkFacts DEF Inv, Searched, Libraries
    <3>2. Done(g, i) /\ i \in DOMAIN undefines
      BY <1>1, <2>1, <3>1 DEF Inv, Searched
    <3> QED BY <2>1, <3>2
  <2>3. ASSUME NEW i \in 1 .. scan' PROVE Done(lib, i)'
    <3>1. \A g \in Libraries : g = lib' => Done(g, i)'
      BY <1>1, <2>2, <2>3
    <3> QED BY <1>1, <3>1 DEF Done, Offers, Find
  <2> QED BY <1>1, <2>1, <2>2, <2>3 DEF Inv, Searched
<1> QED BY <1>2, <1>3, <1>4, <1>5 DEF Inv

\* The callback of an archive or a shared library.
LEMMA CallbackFacts ==
  ASSUME Inv, NEW n \in Names, NEW dataOnly, lib # None, link' = link, lib' = lib, symtab' = symtab,
         Callback(n, dataOnly)
  PROVE  /\ taken \subseteq taken' /\ todo' \in Seq(D)
         /\ phase' = phase \/ phase' = "handle"
         /\ ~dataOnly => \/ ~Offers(lib, n)'
                         \/ /\ phase' = "handle" /\ link.kind[lib] = "shared"
                            /\ link.exports[lib][n] # None /\ todo' = <<link.exports[lib][n]>>
<1>1. lib \in Files /\ link.kind[lib] # "object" /\ link \in Links /\ todo \in Seq(D)
  BY DEF Inv, Typed, Libraries
<1>2. CASE link.kind[lib] = "archive"
  <2> DEFINE m == Find(lib, n, dataOnly)
  <2>1. m # None => m \in Files /\ m = link.toc[lib][n]
    BY <1>1, <1>2, LibraryAssumption DEF Find
  <2>2. CASE m = None
    <3>1. phase' = phase /\ todo' = todo /\ taken' = taken
      BY <1>2, <2>2 DEF Callback
    <3>2. ~dataOnly => ~Offers(lib, n)'
      BY <1>2, <2>2, <3>1 DEF Offers, Find
    <3> QED BY <1>1, <3>1, <3>2
  <2>3. CASE m # None
    <3>1. taken' = taken \cup {m} /\ todo' \in {todo, link.atoms[m]}
          /\ (phase' = phase \/ phase' = "handle")
      BY <1>2, <2>3 DEF Callback
    <3>2. link.atoms[m] \in Seq(D)
      BY <2>1, <2>3, LinkFacts
    <3>3. ~Offers(lib, n)'
      BY <1>2, <2>1, <2>3, <3>1 DEF Offers, Find
    <3> QED BY <1>1, <3>1, <3>2, <3>3
  <2> QED BY <2>2, <2>3
<1>3. CASE link.kind[lib] # "archive"
  <2> DEFINE s == link.exports[lib][n]
  <2>1. taken' = taken
    BY <1>3 DEF Callback
  <2>2. CASE s = None
    <3>1. phase' = phase /\ todo' = todo
      BY <1>3, <2>2 DEF Callback
    <3> QED BY <1>1, <1>3, <2>1, <2>2, <3>1 DEF Offers
  <2>3. CASE s # None
    <3>1. phase' = "handle" /\ todo' = <<s>>
      BY <1>3, <2>3 DEF Callback
    <3>2. link.kind[lib] = "shared"
      BY <1>1, <1>3, LibraryAssumption
    <3>3. s \in D
      BY <1>1, <2>3, <3>2, LibraryAssumption DEF D
    <3> QED BY <2>1, <2>3, <3>1, <3>2, <3>3
  <2> QED BY <2>2, <2>3
<1> QED BY <1>2, <1>3

LEMMA NextUndefineInv ==
  ASSUME Inv, NextUndefine
  PROVE  Inv'
<1> USE DEF reading, searching, tables, stripping
<1>1. /\ phase = "undefs" /\ scan < Len(undefines) /\ scan' = scan + 1
      /\ link' = link /\ lib' = lib /\ symtab' = symtab /\ atoms' = atoms /\ undefIndex' = undefIndex
      /\ index' = index /\ tents' = tents
      /\ lib # None /\ lib \in Libraries /\ link \in Links
  BY DEF NextUndefine, Inv, Calls, Typed
<1>2. /\ undefines \in Seq(Names \cup {None}) /\ DOMAIN undefines = 1 .. Len(undefines)
      /\ Len(undefines) \in Nat /\ scan \in Nat /\ scan + 1 \in DOMAIN undefines
  <2>1. undefines \in Seq(Names \cup {None}) /\ scan \in Nat
    BY DEF Inv, Typed
  <2>2. DOMAIN undefines = 1 .. Len(undefines) /\ Len(undefines) \in Nat
    BY <2>1, LenProperties
  <2> QED BY <1>1, <2>1, <2>2
<1>3. /\ GoodTable(symtab)' /\ Holds' /\ BestDefinitionWins'
      /\ \A n \in Names : IsUndefinedName(n)' <=> IsUndefinedName(n)
  <2>1. Collecting' => Collecting /\ atoms' = atoms
    BY <1>1 DEF Collecting
  <2> QED BY <1>1, <2>1, TablesKept
<1>k. PICK k \in Nat : k = scan + 1
  BY <1>2
<1>4. ASSUME /\ taken \subseteq taken' /\ todo' \in Seq(D) /\ (phase' = phase \/ phase' = "handle")
             /\ back' \in {back, "undefs"}
             /\ undefines' \in Seq(Names \cup {None}) /\ Len(undefines') = Len(undefines)
             /\ \A i \in DOMAIN undefines : undefines'[i] = undefines[i] \/ undefines'[i] = None,
             Listed',
             \A f \in Libraries : f = lib => Done(f, k)' \/ Awaited'
      PROVE  Inv'
  <2>1. Typed' /\ Calls'
    BY <1>1, <1>2, <1>4 DEF Inv, Typed, Calls, D, Libraries, Running, Collecting
  <2>2. /\ Libraries' = Libraries /\ \A f \in Files : undefIndex[f] \in Nat
        /\ \A f \in Libraries : \A i \in DOMAIN undefines : Done(f, i) => Done(f, i)'
    BY <1>1, <1>4, SearchKept DEF Collecting
  <2>3. ASSUME NEW f \in Libraries \ {lib}, NEW i \in 1 .. undefIndex[f] PROVE Done(f, i)'
    <3>1. f \in Files /\ undefIndex[f] <= Len(undefines) /\ Done(f, i)
      BY DEF Inv, Searched, Libraries
    <3>2. i \in DOMAIN undefines
      BY <1>2, <2>2, <3>1
    <3> QED BY <2>2, <3>1, <3>2
  <2>4. ASSUME NEW i \in 1 .. scan + 1, NEW f \in Libraries, f = lib
        PROVE  Done(f, i)' \/ (i = scan' /\ Awaited')
    <3>1. CASE i = scan + 1
      BY <1>1, <1>k, <1>4, <2>4, <3>1
    <3>2. CASE i # scan + 1
      <4>1. i \in 1 .. scan /\ i \in DOMAIN undefines
        BY <1>2, <3>2
      <4>2. ~Awaited
        BY <1>1 DEF Awaited
      <4>3. Done(lib, i)
        BY <1>1, <4>1, <4>2 DEF Inv, Searched
      <4>4. Done(f, i)
        BY <2>4, <4>3
      <4> QED BY <2>2, <4>1, <4>4
    <3> QED BY <3>1, <3>2
  <2>5. ASSUME NEW i \in 1 .. scan' PROVE Done(lib, i)' \/ (i = scan' /\ Awaited')
    <3>1. \A f \in Libraries : f = lib' => Done(f, i)' \/ (i = scan' /\ Awaited')
      BY <1>1, <2>4
    <3> QED BY <1>1, <3>1 DEF Done, Offers, Find
  <2>6. Searched'
    BY <1>1, <1>2, <1>4, <2>2, <2>3, <2>5 DEF Inv, Searched
  <2> QED BY <1>3, <1>4, <2>1, <2>6 DEF Inv
<1>5. CASE undefines[scan + 1] # None /\ IsUndefinedName(undefines[scan + 1])
  <2>0. PICK n \in Names : n = undefines[scan + 1]
    BY <1>2, <1>5, ElementOfSeq
  <2>1. Callback(n, FALSE) /\ back' = "undefs" /\ undefines' = undefines
    BY <1>5, <2>0 DEF NextUndefine
  <2>3. /\ taken \subseteq taken' /\ todo' \in Seq(D)
        /\ phase' = phase \/ phase' = "handle"
        /\ \/ ~Offers(lib, n)'
           \/ /\ phase' = "handle" /\ link.kind[lib] = "shared"
              /\ link.exports[lib][n] # None /\ todo' = <<link.exports[lib][n]>>
    BY <1>1, <2>0, <2>1, CallbackFacts
  <2>4. Listed'
    BY <1>3, <2>1, <1>1 DEF Inv, Listed
  <2>5. ASSUME NEW f \in Libraries, f = lib PROVE Done(f, k)' \/ Awaited'
    <3>1. CASE ~Offers(lib, n)'
      BY <1>1, <1>k, <2>0, <2>1, <2>5, <3>1 DEF Done, Offers, Find
    <3>2. CASE /\ phase' = "handle" /\ link.kind[lib] = "shared"
               /\ link.exports[lib][n] # None /\ todo' = <<link.exports[lib][n]>>
      BY <1>1, <1>2, <1>5, <2>0, <2>1, <3>2 DEF Awaited
    <3> QED BY <2>3, <3>1, <3>2
  <2> QED BY <1>2, <1>4, <2>1, <2>3, <2>4, <2>5
<1>6. CASE ~(undefines[scan + 1] # None /\ IsUndefinedName(undefines[scan + 1]))
  <2>1. undefines' = [undefines EXCEPT ![scan + 1] = None]
        /\ phase' = phase /\ todo' = todo /\ back' = back /\ taken' = taken
    BY <1>6 DEF NextUndefine
  <2>2. undefines' \in Seq(Names \cup {None}) /\ Len(undefines') = Len(undefines)
    BY <1>2, <2>1, ExceptSeq
  <2>3. /\ DOMAIN undefines' = DOMAIN undefines /\ undefines'[scan + 1] = None
        /\ \A i \in DOMAIN undefines : i # scan + 1 => undefines'[i] = undefines[i]
    BY <1>2, <2>1
  <2>4. Listed'
    <3>1. ASSUME NEW m \in Names, IsUndefinedName(m)' PROVE m \in ToSet(undefines)'
      <4>1. IsUndefinedName(m) /\ m # None
        BY <1>3, <3>1, NoneAssumption
      <4>2. PICK i \in DOMAIN undefines : undefines[i] = m
        BY <4>1 DEF Inv, Listed, ToSet
      <4>3. i # scan + 1
        BY <1>6, <4>1, <4>2
      <4> QED BY <2>3, <4>2, <4>3 DEF ToSet
    <3>2. ASSUME NEW i \in DOMAIN undefines', undefines'[i] # None
          PROVE  symtab'.names[undefines'[i]] # None
      BY <1>1, <2>3, <3>2 DEF Inv, Listed
    <3> QED BY <3>1, <3>2 DEF Listed
  <2>5. todo' \in Seq(D)
    BY <2>1 DEF Inv, Typed
  <2>6. \A f \in Libraries : Done(f, k)'
    BY <1>1, <1>k, <2>3 DEF Done
  <2> QED BY <1>4, <2>1, <2>2, <2>3, <2>4, <2>5, <2>6
<1> QED BY <1>5, <1>6

LEMMA NextTentativeInv ==
  ASSUME Inv, NextTentative
  PROVE  Inv'
<1> USE DEF reading, searching, tables, stripping
<1>1. /\ phase = "tents" /\ link' = link /\ lib' = lib /\ symtab' = symtab /\ atoms' = atoms
      /\ undefIndex' = undefIndex /\ undefines' = undefines /\ index' = index /\ scan' = scan
      /\ lib # None /\ tents' \subseteq Names
  BY DEF NextTentative, Inv, Calls, Typed
<1>2. /\ taken \subseteq taken' /\ todo' \in Seq(D) /\ (phase' = phase \/ phase' = "handle")
      /\ back' \in {back, "tents"}
  <2>1. PICK n \in tents : IF IsTentative(symtab, n)
                           THEN Callback(n, TRUE) /\ back' = "tents"
                           ELSE UNCHANGED <<phase, todo, back, taken>>
    BY DEF NextTentative
  <2>2. n \in Names /\ todo \in Seq(D)
    BY DEF Inv, Typed
  <2>3. CASE IsTentative(symtab, n)
    BY <1>1, <2>1, <2>2, <2>3, CallbackFacts
  <2>4. CASE ~IsTentative(symtab, n)
    BY <2>1, <2>2, <2>4
  <2> QED BY <2>3, <2>4
<1>3. Typed' /\ Calls'
  BY <1>1, <1>2 DEF Inv, Typed, Calls, D, Libraries, Running, Collecting
<1>4. ~Awaited
  BY <1>1 DEF Awaited
<1>5. Collecting
  BY <1>1 DEF Collecting
<1> QED BY <1>1, <1>2, <1>3, <1>4, <1>5, QuietStep

\* All names there are have been looked at.
LEMMA LibraryDoneInv ==
  ASSUME Inv, LibraryDone
  PROVE  Inv'
<1> USE DEF reading, searching, tables, stripping
<1>1. /\ phase = "tents" /\ phase' = "next" /\ lib' = None /\ lib # None /\ lib \in Libraries
      /\ scan = Len(undefines) /\ scan' = 0
      /\ link' = link /\ symtab' = symtab /\ atoms' = atoms /\ undefines' = undefines /\ taken' = taken
      /\ undefIndex' = [undefIndex EXCEPT ![lib] = scan]
      /\ index' = index /\ todo' = todo /\ back' = back /\ tents' = tents
  BY DEF LibraryDone, Inv, Calls, Typed
<1>2. /\ GoodTable(symtab)' /\ Holds' /\ BestDefinitionWins'
      /\ \A n \in Names : IsUndefinedName(n)' <=> IsUndefinedName(n)
  BY <1>1, TablesKept DEF Collecting
<1>3. /\ Libraries' = Libraries /\ DOMAIN undefines = 1 .. Len(undefines)
      /\ Len(undefines) \in Nat /\ scan \in Nat /\ \A g \in Files : undefIndex[g] \in Nat
      /\ \A g \in Libraries : \A i \in DOMAIN undefines : Done(g, i) => Done(g, i)'
  BY <1>1, SearchKept DEF Collecting
<1>4. lib \in Files /\ undefIndex \in [Files -> Nat]
  BY <1>1 DEF Inv, Typed, Libraries
<1>5. Typed' /\ Calls'
  BY <1>1, <1>3, <1>4 DEF Inv, Typed, Calls, D, Libraries, Running, Collecting
<1>6. Listed'
  BY <1>1, <1>2 DEF Inv, Listed
<1>7. Searched'
  <2>1. ASSUME NEW g \in Files PROVE undefIndex'[g] <= Len(undefines)
    <3>1. undefIndex[g] <= Len(undefines)
      BY DEF Inv, Searched
    <3> QED BY <1>1, <1>3, <1>4, <3>1
  <2>2. ASSUME NEW g \in Libraries, NEW i \in 1 .. undefIndex'[g] PROVE Done(g, i)'
    <3>1. g \in Files
      BY DEF Libraries
    <3>2. i \in DOMAIN undefines
      BY <1>1, <1>3, <1>4, <2>1, <3>1
    <3>3. CASE g = lib
      <4>1. ~Awaited /\ i \in 1 .. scan
        BY <1>1, <1>3, <3>2 DEF Awaited
      <4>2. Done(g, i)
        BY <1>1, <3>3, <4>1 DEF Inv, Searched
      <4> QED BY <1>3, <3>2, <4>2
    <3>4. CASE g # lib
      <4>1. i \in 1 .. undefIndex[g]
        BY <1>1, <1>4, <3>1, <3>4
      <4>2. Done(g, i)
        BY <3>4, <4>1 DEF Inv, Searched
      <4> QED BY <1>3, <3>2, <4>2
    <3> QED BY <3>3, <3>4
  <2> QED BY <1>1, <1>3, <2>1, <2>2 DEF Searched
<1> QED BY <1>2, <1>5, <1>6, <1>7 DEF Inv

-----------------------------------------------------------------------------
(* Steps of handleFile.                                                    *)

LEMMA TableStep ==
  ASSUME Inv, phase = "handle", Typed', Calls', GoodTable(symtab)', Holds', BestDefinitionWins',
         link' = link, lib' = lib, scan' = scan, taken' = taken, undefIndex' = undefIndex,
         NEW s \in Seq(Names), undefines' = undefines \o s,
         \A n \in Names :
           /\ symtab.names[n] # None => symtab'.names[n] # None
           /\ IsUndefinedName(n)' => symtab.names[n] = None \/ IsUndefinedName(n)
           /\ symtab.names[n] = None /\ IsUndefinedName(n)' => n \in ToSet(s)
           /\ n \in ToSet(s) => symtab'.names[n] # None,
         Awaited => \A n \in Names : n = undefines[scan] => ~IsUndefinedName(n)'
  PROVE  Inv'
<1>1. /\ undefines \in Seq(Names \cup {None}) /\ s \in Seq(Names \cup {None})
      /\ DOMAIN undefines = 1 .. Len(undefines) /\ scan \in Nat
      /\ \A f \in Files : undefIndex[f] \in Nat
  BY LenProperties DEF Inv, Typed
<1>2. /\ Len(undefines \o s) = Len(undefines) + Len(s)
      /\ Len(undefines) \in Nat /\ Len(s) \in Nat
      /\ \A i \in DOMAIN undefines : i \in DOMAIN (undefines \o s) /\ (undefines \o s)[i] = undefines[i]
      /\ \A i \in DOMAIN (undefines \o s) : (undefines \o s)[i] \in ToSet(undefines) \cup ToSet(s)
      /\ ToSet(undefines \o s) = ToSet(undefines) \cup ToSet(s)
  BY <1>1, ConcatFacts
<1>3. ToSet(s) \subseteq Names
  BY ElementOfSeq, LenProperties DEF ToSet
<1>4. Listed'
  <2>1. ASSUME NEW n \in Names, IsUndefinedName(n)' PROVE n \in ToSet(undefines)'
    BY <1>2, <2>1 DEF Inv, Listed
  <2>2. ASSUME NEW i \in DOMAIN undefines', undefines'[i] # None
        PROVE  symtab'.names[undefines'[i]] # None
    <3>1. undefines'[i] \in ToSet(undefines) \cup ToSet(s)
      BY <1>2
    <3>2. CASE undefines'[i] \in ToSet(s)
      BY <1>3, <3>2
    <3>3. CASE undefines'[i] \in ToSet(undefines)
      <4>1. PICK j \in DOMAIN undefines : undefines[j] = undefines'[i]
        BY <3>3 DEF ToSet
      <4>2. undefines[j] \in Names /\ symtab.names[undefines[j]] # None
        BY <1>1, <2>2, <4>1, ElementOfSeq DEF Inv, Listed
      <4> QED BY <4>1, <4>2
    <3> QED BY <3>1, <3>2, <3>3
  <2> QED BY <2>1, <2>2 DEF Listed
<1>5. ASSUME NEW f \in Libraries, NEW i \in DOMAIN undefines, Done(f, i) PROVE Done(f, i)'
  BY <1>2, <1>5, DoneKept
<1>6. Searched'
  <2>1. Libraries' = Libraries /\ Len(undefines) <= Len(undefines')
    BY <1>2 DEF Libraries
  <2>2. ASSUME NEW f \in Files PROVE undefIndex'[f] <= Len(undefines')
    <3>1. undefIndex[f] <= Len(undefines)
      BY DEF Inv, Searched
    <3> QED BY <1>1, <1>2, <3>1
  <2>3. ASSUME NEW f \in Libraries \ {lib}, NEW i \in 1 .. undefIndex[f] PROVE Done(f, i)'
    <3>1. f \in Files /\ undefIndex[f] <= Len(undefines) /\ Done(f, i)
      BY DEF Inv, Searched, Libraries
    <3>2. i \in DOMAIN undefines
      BY <1>1, <1>2, <3>1
    <3> QED BY <1>5, <3>1, <3>2
  <2>4. ASSUME lib # None, NEW i \in 1 .. scan, NEW f \in Libraries, f = lib PROVE Done(f, i)'
    <3>1. scan <= Len(undefines) /\ (Done(lib, i) \/ (i = scan /\ Awaited))
      BY <2>4 DEF Inv, Searched
    <3>2. i \in DOMAIN undefines
      BY <1>1, <1>2, <3>1
    <3>3. CASE Done(lib, i)
      <4>1. Done(f, i)
        BY <2>4, <3>3
      <4> QED BY <1>5, <3>2, <4>1
    <3>4. CASE i = scan /\ Awaited
      <4>1. PICK n \in Names : n = undefines[scan]
        BY <1>1, <3>2, <3>4, ElementOfSeq DEF Awaited
      <4>2. ~IsUndefinedName(n)' /\ undefines'[i] = n
        BY <1>2, <3>2, <3>4, <4>1
      <4> QED BY <4>2 DEF Done
    <3> QED BY <3>1, <3>3, <3>4
  <2>5. ASSUME lib # None, NEW i \in 1 .. scan PROVE Done(lib, i)'
    <3>1. \A f \in Libraries : f = lib' => Done(f, i)'
      BY <2>4, <2>5
    <3>2. lib' \in Libraries
      BY <2>5 DEF Inv, Typed
    <3> QED BY <3>1, <3>2 DEF Done, Offers, Find
  <2>6. lib # None => scan <= Len(undefines')
    BY <1>1, <1>2 DEF Inv, Searched
  <2> QED BY <2>1, <2>2, <2>3, <2>5, <2>6 DEF Searched
<1> QED BY <1>4, <1>6 DEF Inv

\* What a shared library exports is a shared library's atom.
LEMMA AwaitedIsShared ==
  ASSUME Inv, Awaited
  PROVE  /\ undefines[scan] \in Names
         /\ Is(Head(todo), "sharedLibrary") /\ Name(Head(todo)) = undefines[scan]
<1> DEFINE n == undefines[scan]
<1>1. lib \in Files /\ link \in Links /\ link.kind[lib] = "shared"
  BY DEF Inv, Typed, Libraries, Awaited
<1>2. Head(todo) = link.exports[lib][n] /\ link.exports[lib][n] # None
  BY DEF Awaited
<1>3. n \in Names
  BY ElementOfSeq DEF Inv, Typed, Awaited
<1> QED BY <1>1, <1>2, <1>3, LibraryAssumption DEF Is, Name

\* The invariant of the next state, in terms of the link that stays as it is.
LEMMA SameLink ==
  ASSUME link' = link
  PROVE  /\ GoodTable(symtab)' <=> GoodTable(symtab')
         /\ Holds' <=> (Collecting' => HoldsIn(symtab', atoms'))
         /\ BestDefinitionWins' <=> (Collecting' => BestIn(symtab', atoms'))
         /\ \A n \in Names : IsUndefinedName(n)' <=> Wanted(symtab', n)
<1>1. D' = D /\ \A a : (Nameable(a)' <=> Nameable(a)) /\ Name(a)' = Name(a)
  BY DEF D, Nameable, Name, Is
<1>2. \A a, b : AtLeast(a, b)' <=> AtLeast(a, b)
  BY DEF AtLeast, Class, Is
<1>3. GoodTable(symtab)' <=> GoodTable(symtab')
  BY <1>1, <1>2 DEF GoodTable, IsTable, ReplacedAreBeaten, ReplacedInTable, Beaten,
                    HasFallbacks, IsCoalescedAway, Is, Name
<1>4. Holds' <=> (Collecting' => HoldsIn(symtab', atoms'))
  BY DEF Holds, HoldsIn
<1>5. BestDefinitionWins' <=> (Collecting' => BestIn(symtab', atoms'))
  BY <1>1, <1>2 DEF BestDefinitionWins, BestIn, BySize, Sized, Beaten, IsNamed, Is
<1>6. \A n \in Names : IsUndefinedName(n)' <=> Wanted(symtab', n)
  BY DEF IsUndefinedName, Wanted, IsCoalescedAway, Is
<1> QED BY <1>3, <1>4, <1>5, <1>6

LEMMA AddedInv ==
  ASSUME Inv, NEW a \in D, Handling(a), Is(a, "regular") => link.atom[a].group = "no",
         ~Is(a, "undefined"), Added(a, Tail(todo)),
         UNCHANGED <<link, index, lib, back, scan, tents, taken, undefIndex, undefines>>
  PROVE  Inv'
<1>1. /\ phase = "handle" /\ todo # <<>> /\ a = Head(todo) /\ Collecting
      /\ link \in Links /\ GoodTable(symtab) /\ Typed /\ Calls
  BY DEF Handling, Collecting, Inv, Typed
<1>2. Tail(todo) \in Seq(D) /\ todo' = Tail(todo) /\ atoms' = atoms \cup {a}
  BY <1>1, TailFacts DEF Added, Inv, Typed
<1>3. atoms' \in SUBSET D /\ atoms' = atoms \cup {a}
  BY <1>1, <1>2 DEF Typed
<1>4. phase' \in {"handle", "fatal"}
  BY <1>1 DEF Added
<1>5. Typed' /\ Calls'
  BY <1>1, <1>2, <1>3, <1>4 DEF Typed, Calls, D, Libraries, Running, Stopped
<1>6. CASE AddFails(symtab, a)
  <2>1. phase' = "fatal" /\ symtab' = symtab
    BY <1>6 DEF Added
  <2>2. ~Is(a, "sharedLibrary")
    BY <1>6 DEF AddFails, DuplicateSymbols, Is
  <2>3. ~Awaited
    BY <1>1, <2>2, AwaitedIsShared
  <2> QED BY <1>5, <2>1, <2>3, QuietStep DEF Collecting
<1>7. CASE ~AddFails(symtab, a)
  <2>1. phase' = phase /\ symtab' = Add(symtab, a)
    BY <1>7 DEF Added
  <2> DEFINE u == Add(symtab, a)
  <2>2. GoodTable(u)
    BY <1>1, <1>7, AddIsGood
  <2>3. atoms \in SUBSET D /\ HoldsIn(symtab, atoms) /\ BestIn(symtab, atoms)
    BY <1>1, BestIsBestIn, LinkFacts DEF Inv, Holds, HoldsIn
  <2>4. HoldsIn(u, atoms \cup {a}) /\ BestIn(u, atoms \cup {a})
    BY <1>1, <1>7, <2>3, AddBest
  <2>5. GoodTable(symtab)' /\ Holds' /\ BestDefinitionWins'
    BY <1>3, <2>1, <2>2, <2>4, SameLink
  <2>6. ASSUME NEW n \in Names
        PROVE  /\ symtab.names[n] # None => symtab'.names[n] # None
               /\ IsUndefinedName(n)' => symtab.names[n] = None \/ IsUndefinedName(n)
               /\ symtab.names[n] = None => ~IsUndefinedName(n)'
    <3>1. /\ symtab.names[n] # None => u.names[n] # None
          /\ u.names[n] # symtab.names[n] => n = Name(a) /\ u.names[n] = a
          /\ Wanted(u, n) =>
               \/ symtab.names[n] = None
               \/ Wanted(symtab, n)
               \/ n = Name(a) /\ u.names[n] = a /\ link.atom[a].fallback # None
      BY <1>1, AddWanted
    <3>2. IsUndefinedName(n)' <=> Wanted(u, n)
      BY <2>1, SameLink
    <3>3. IsUndefinedName(n) <=> Wanted(symtab, n)
      BY WantedIs
    <3>4. u.names[n] = a => ~Wanted(u, n)
      BY DEF Wanted
    <3> QED BY <2>1, <3>1, <3>2, <3>3, <3>4 DEF Wanted
  <2>7. Awaited => \A n \in Names : n = undefines[scan] => ~IsUndefinedName(n)'
    <3> SUFFICES ASSUME Awaited, NEW n \in Names, n = undefines[scan] PROVE ~IsUndefinedName(n)'
      OBVIOUS
    <3>1. Is(a, "sharedLibrary") /\ Name(a) = n
      BY <1>1, AwaitedIsShared
    <3>2. ~Wanted(u, n)
      BY <1>1, <3>1, AddShared
    <3> QED BY <2>1, <3>2, SameLink
  <2>8. <<>> \in Seq(Names) /\ undefines' = undefines \o <<>> /\ ToSet(<<>>) = {}
    BY <1>1, ConcatEmptySeq, EmptySeq DEF Typed, ToSet
  <2> QED BY <1>1, <1>5, <2>5, <2>6, <2>7, <2>8, TableStep
<1> QED BY <1>6, <1>7

LEMMA DoAtomInv ==
  ASSUME Inv, DoDefinedAtom \/ DoOtherAtom
  PROVE  Inv'
<1> USE DEF searching, stripping
<1>1. CASE DoDefinedAtom
  <2>1. PICK a \in D : /\ Handling(a) /\ Is(a, "regular") /\ link.atom[a].group = "no"
                       /\ Added(a, Tail(todo))
                       /\ UNCHANGED <<link, index, lib, back, scan, tents, taken, undefIndex, undefines>>
    BY <1>1 DEF DoDefinedAtom, D
  <2> QED BY <2>1, AddedInv DEF Is
<1>2. CASE DoOtherAtom
  <2>1. PICK a \in D : /\ Handling(a) /\ (Is(a, "sharedLibrary") \/ Is(a, "absolute"))
                       /\ Added(a, Tail(todo))
                       /\ UNCHANGED <<link, index, lib, back, scan, tents, taken, undefIndex, undefines>>
    BY <1>2 DEF DoOtherAtom, D
  <2> QED BY <2>1, AddedInv DEF Is
<1> QED BY <1>1, <1>2

\* The names stay when a group is chosen or given up.
LEMMA GroupTable ==
  ASSUME NEW t, GoodTable(t), NEW a, Is(a, "regular"), NEW u,
         u = [names |-> u.names, groups |-> u.groups, contents |-> u.contents, replaced |-> u.replaced],
         u.names = t.names,
         DOMAIN t.replaced \subseteq DOMAIN u.replaced,
         DOMAIN u.replaced \subseteq DOMAIN t.replaced \cup {a}
  PROVE  /\ GoodTable(u)
         /\ \A n \in Names : Wanted(u, n) => Wanted(t, n)
<1>1. ~Is(a, "undefined")
  BY DEF Is
<1>2. IsTable(u)
  BY DEF GoodTable, IsTable
<1>3. ReplacedAreBeaten(u)
  BY <1>1 DEF GoodTable, ReplacedAreBeaten, Beaten
<1>4. ReplacedInTable(u)
  BY <1>1 DEF GoodTable, ReplacedInTable, IsCoalescedAway
<1>5. \A n \in Names : Wanted(u, n) => Wanted(t, n)
  BY DEF Wanted, IsCoalescedAway
<1> QED BY <1>2, <1>3, <1>4, <1>5 DEF GoodTable

LEMMA DoGroupInv ==
  ASSUME Inv, DoGroup
  PROVE  Inv'
<1> USE DEF searching, stripping
<1>1. PICK a \in D : /\ Handling(a) /\ Is(a, "regular") /\ link.atom[a].group # "no"
                     /\ atoms' = atoms \cup {a}
                     /\ IF Name(a) \notin DOMAIN symtab.groups
                        THEN /\ symtab' = [symtab EXCEPT !.groups = Put(@, Name(a), a)]
                             /\ todo' = Children(a) \o Tail(todo)
                             /\ UNCHANGED phase
                        ELSE LET g == symtab.groups[Name(a)] IN
                             /\ symtab' = [symtab EXCEPT !.replaced = Put(@, a, g)]
                             /\ todo' = Tail(todo)
                             /\ phase' = IF link.allowDuplicates \/ link.atom[g].group = link.atom[a].group
                                         THEN phase ELSE "fatal"
  BY DEF DoGroup, D
<1>2. UNCHANGED <<link, index, lib, back, scan, tents, taken, undefIndex, undefines>>
  BY DEF DoGroup
<1>3. /\ phase = "handle" /\ todo # <<>> /\ a = Head(todo) /\ Collecting
      /\ link \in Links /\ GoodTable(symtab) /\ Typed /\ Calls
  BY <1>1 DEF Handling, Collecting, Inv, Typed
<1>4. todo' \in Seq(D)
  <2>1. Tail(todo) \in Seq(D)
    BY <1>3, TailFacts DEF Typed
  <2> DEFINE C == {c \in D : <<"groupChild", c>> \in link.atom[a].refs}
  <2>2. IsFiniteSet(C)
    BY LinkFacts, FS_Subset
  <2>3. SetToSeq(C) \in Seq(C) /\ Children(a) = SetToSeq(C)
    BY <2>2, SetToSeqFacts DEF Children, D
  <2>4. C \in SUBSET D
    OBVIOUS
  <2> HIDE DEF C
  <2>5. Children(a) \in Seq(D)
    BY <2>3, <2>4, SeqMonotonic
  <2>6. Children(a) \o Tail(todo) \in Seq(D)
    BY <2>1, <2>5, ConcatFacts
  <2> QED BY <1>1, <2>1, <2>6
<1>5. atoms' \in SUBSET D /\ atoms' = atoms \cup {a}
  BY <1>1, <1>3 DEF Typed
<1>6. phase' \in {"handle", "fatal"}
  BY <1>1, <1>3
<1>7. Typed' /\ Calls'
  BY <1>2, <1>3, <1>4, <1>5, <1>6 DEF Typed, Calls, D, Libraries, Running, Stopped
<1>8. /\ GoodTable(symtab') /\ symtab'.names = symtab.names
      /\ \A n \in Names : Wanted(symtab', n) => Wanted(symtab, n)
  <2>1. PICK u : u = symtab'
    OBVIOUS
  <2>2. /\ u = [names |-> u.names, groups |-> u.groups, contents |-> u.contents, replaced |-> u.replaced]
        /\ u.names = symtab.names
        /\ DOMAIN symtab.replaced \subseteq DOMAIN u.replaced
        /\ DOMAIN u.replaced \subseteq DOMAIN symtab.replaced \cup {a}
    BY <1>1, <1>3, <2>1 DEF GoodTable, IsTable, Put
  <2>3. GoodTable(u) /\ \A n \in Names : Wanted(u, n) => Wanted(symtab, n)
    BY <1>1, <1>3, <2>2, GroupTable
  <2> QED BY <2>1, <2>2, <2>3
<1>9. GoodTable(symtab)' /\ Holds' /\ BestDefinitionWins'
  <2>1. HoldsIn(symtab, atoms) /\ BestIn(symtab, atoms)
    BY <1>3, BestIsBestIn DEF Inv, Holds, HoldsIn
  <2>2. HoldsIn(symtab', atoms') /\ BestIn(symtab', atoms')
    BY <1>1, <1>5, <1>8, <2>1 DEF HoldsIn, BestIn, Beaten, IsNamed
  <2> QED BY <1>2, <1>8, <2>2, SameLink
<1>10. \A n \in Names :
        /\ symtab.names[n] # None => symtab'.names[n] # None
        /\ IsUndefinedName(n)' => symtab.names[n] = None \/ IsUndefinedName(n)
        /\ symtab.names[n] = None => ~IsUndefinedName(n)'
  BY <1>2, <1>8, SameLink, WantedIs DEF Wanted
<1>11. ~Awaited
  BY <1>1, <1>3, AwaitedIsShared DEF Is
<1>12. <<>> \in Seq(Names) /\ undefines' = undefines \o <<>> /\ ToSet(<<>>) = {}
  BY <1>2, <1>3, ConcatEmptySeq, EmptySeq DEF Typed, ToSet
<1> QED BY <1>2, <1>3, <1>7, <1>9, <1>10, <1>11, <1>12, TableStep

\* The name of v, if t does not have it.
NewName(t, v) == IF t.names[Name(v)] = None THEN <<Name(v)>> ELSE <<>>

LEMMA NewNameFacts ==
  ASSUME NEW t, NEW v, Name(v) \in Names
  PROVE  /\ NewName(t, v) \in Seq(Names) /\ NewName(t, v) \in Seq(Names \cup {None})
         /\ ToSet(NewName(t, v)) = IF t.names[Name(v)] = None THEN {Name(v)} ELSE {}
<1>1. CASE t.names[Name(v)] = None
  <2>1. NewName(t, v) = <<Name(v)>>
    BY <1>1 DEF NewName
  <2>2. <<Name(v)>> \in Seq(Names) /\ <<Name(v)>> \in Seq(Names \cup {None}) /\ ToSet(<<Name(v)>>) = {Name(v)}
    BY DEF ToSet
  <2> QED BY <1>1, <2>1, <2>2
<1>2. CASE t.names[Name(v)] # None
  <2>1. NewName(t, v) = <<>>
    BY <1>2 DEF NewName
  <2>2. <<>> \in Seq(Names) /\ <<>> \in Seq(Names \cup {None}) /\ ToSet(<<>>) = {}
    BY DEF ToSet
  <2> QED BY <1>2, <2>1, <2>2
<1> QED BY <1>1, <1>2

\* A name that was added is in the table.
LEMMA AddEnters ==
  ASSUME link \in Links, NEW t, IsTable(t), NEW a \in D, Is(a, "undefined")
  PROVE  Add(t, a).names[Name(a)] # None
<1>1. ~Is(a, "regular") /\ a # None /\ Name(a) # None
  BY AtomFacts, NoneAssumption DEF Is
<1> QED BY <1>1, AddCases

LEMMA DoUndefinedAtomInv ==
  ASSUME Inv, DoUndefinedAtom
  PROVE  Inv'
<1> USE DEF searching, stripping
<1>1. PICK a \in D :
        /\ Handling(a) /\ Is(a, "undefined")
        /\ LET b == link.atom[a].fallback
               t1 == Add(symtab, a)
               t2 == Add(t1, b)
           IN  IF b # None /\ ~IsDefinedName(t1, Name(a))
               THEN /\ symtab' = [t2 EXCEPT !.replaced = Put(@, a, b)]
                    /\ atoms' = atoms \cup {a, b}
                    /\ undefines' = undefines \o NewName(symtab, a) \o NewName(t1, b)
               ELSE /\ symtab' = t1
                    /\ atoms' = atoms \cup {a}
                    /\ undefines' = undefines \o NewName(symtab, a)
        /\ todo' = Tail(todo)
  BY DEF DoUndefinedAtom, D, NewName
<1>2. UNCHANGED <<link, phase, index, lib, back, scan, tents, taken, undefIndex>>
  BY DEF DoUndefinedAtom
<1>3. /\ phase = "handle" /\ todo # <<>> /\ a = Head(todo) /\ Collecting /\ Collecting'
      /\ link \in Links /\ GoodTable(symtab) /\ Typed /\ Calls
  BY <1>1, <1>2 DEF Handling, Collecting, Inv, Typed
<1>4. /\ ~Is(a, "regular") /\ ~AddFails(symtab, a) /\ Name(a) \in Names /\ a # None
  BY <1>1, <1>3, UndefinedNeverFails, AtomFacts DEF Is
<1>b. PICK b : b = link.atom[a].fallback
  OBVIOUS
<1>t. PICK t1 : t1 = Add(symtab, a)
  OBVIOUS
<1>5. atoms \in SUBSET D /\ HoldsIn(symtab, atoms) /\ BestIn(symtab, atoms)
  BY <1>3, BestIsBestIn, LinkFacts DEF Inv, Holds, HoldsIn
<1>6. GoodTable(t1) /\ HoldsIn(t1, atoms \cup {a}) /\ BestIn(t1, atoms \cup {a})
  BY <1>3, <1>4, <1>5, <1>t, AddIsGood, AddBest
<1>7. \A n \in Names :
        /\ symtab.names[n] # None => t1.names[n] # None
        /\ t1.names[n] # symtab.names[n] => n = Name(a) /\ t1.names[n] = a
        /\ Wanted(t1, n) =>
             \/ symtab.names[n] = None
             \/ Wanted(symtab, n)
             \/ n = Name(a) /\ t1.names[n] = a /\ link.atom[a].fallback # None
  BY <1>3, <1>4, <1>t, AddWanted
<1>8. t1.names[Name(a)] # None
  BY <1>1, <1>3, <1>t, AddEnters DEF GoodTable
<1>9. ~Awaited
  BY <1>1, <1>3, AwaitedIsShared DEF Is
<1>10. Tail(todo) \in Seq(D)
  BY <1>3, TailFacts DEF Typed
<1>11. /\ NewName(symtab, a) \in Seq(Names) /\ NewName(symtab, a) \in Seq(Names \cup {None})
       /\ ToSet(NewName(symtab, a)) = IF symtab.names[Name(a)] = None THEN {Name(a)} ELSE {}
  BY <1>4, NewNameFacts
<1>12. undefines \in Seq(Names \cup {None})
  BY <1>3 DEF Typed
<1>13. CASE ~(b # None /\ ~IsDefinedName(t1, Name(a)))
  <2>1. symtab' = t1 /\ atoms' = atoms \cup {a} /\ undefines' = undefines \o NewName(symtab, a)
        /\ todo' = Tail(todo)
    BY <1>1, <1>13, <1>b, <1>t
  <2>2. atoms' \in SUBSET D /\ atoms' = atoms \cup {a}
    BY <1>3, <2>1 DEF Typed
  <2>3. undefines' \in Seq(Names \cup {None})
    BY <1>11, <1>12, <2>1, ConcatFacts
  <2>4. Typed' /\ Calls'
    BY <1>2, <1>3, <1>10, <2>1, <2>2, <2>3 DEF Typed, Calls, D, Libraries
  <2>5. GoodTable(symtab)' /\ Holds' /\ BestDefinitionWins'
    BY <1>2, <1>6, <2>1, <2>2, SameLink
  <2>6. ASSUME NEW n \in Names
        PROVE  /\ symtab.names[n] # None => symtab'.names[n] # None
               /\ IsUndefinedName(n)' => symtab.names[n] = None \/ IsUndefinedName(n)
               /\ symtab.names[n] = None /\ IsUndefinedName(n)' => n \in ToSet(NewName(symtab, a))
               /\ n \in ToSet(NewName(symtab, a)) => symtab'.names[n] # None
    <3>1. IsUndefinedName(n)' <=> Wanted(t1, n)
      BY <1>2, <2>1, SameLink
    <3>2. n = Name(a) /\ t1.names[n] = a /\ b # None => FALSE
      BY <1>1, <1>4, <1>13 DEF IsDefinedName
    <3>3. IsUndefinedName(n) <=> Wanted(symtab, n)
      BY WantedIs
    <3> QED BY <1>7, <1>8, <1>11, <1>b, <2>1, <3>1, <3>2, <3>3 DEF Wanted
  <2> QED BY <1>2, <1>3, <1>9, <1>11, <2>1, <2>4, <2>5, <2>6, TableStep
<1>14. CASE b # None /\ ~IsDefinedName(t1, Name(a))
  <2>s. PICK s : s = NewName(symtab, a) \o NewName(t1, b)
    OBVIOUS
  <2>u. PICK u : u = FallBack(symtab, a, b)
    OBVIOUS
  <2>1. /\ symtab' = u /\ atoms' = atoms \cup {a, b} /\ todo' = Tail(todo)
        /\ undefines' = undefines \o NewName(symtab, a) \o NewName(t1, b)
    BY <1>1, <1>14, <1>b, <1>t, <2>u DEF FallBack
  <2>2. /\ GoodTable(u) /\ b \in D /\ Is(b, "undefined") /\ u.names = Add(t1, b).names
        /\ \A n \in Names :
             /\ symtab.names[n] # None => u.names[n] # None
             /\ symtab.names[n] = None /\ u.names[n] # None =>
                  n = Name(a) \/ (n = Name(b) /\ t1.names[n] = None)
             /\ Wanted(u, n) => symtab.names[n] = None \/ Wanted(symtab, n)
    <3>1. ~IsDefinedName(Add(symtab, a), Name(a))
      BY <1>14, <1>t
    <3>2. /\ link \in Links /\ GoodTable(symtab) /\ Is(a, "undefined") /\ b # None
          /\ b = link.atom[a].fallback /\ t1 = Add(symtab, a) /\ u = FallBack(symtab, a, b)
      BY <1>1, <1>3, <1>14, <1>b, <1>t, <2>u
    <3> QED BY <3>1, <3>2, FallBackIsGood
  <2>3. Name(b) \in Names /\ ~Is(b, "regular") /\ ~AddFails(t1, b)
    BY <1>3, <2>2, AtomFacts, UndefinedNeverFails DEF Is
  <2>4. /\ NewName(t1, b) \in Seq(Names) /\ NewName(t1, b) \in Seq(Names \cup {None})
        /\ ToSet(NewName(t1, b)) = IF t1.names[Name(b)] = None THEN {Name(b)} ELSE {}
    BY <2>3, NewNameFacts
  <2>5. s \in Seq(Names) /\ ToSet(s) = ToSet(NewName(symtab, a)) \cup ToSet(NewName(t1, b))
    BY <1>11, <2>4, <2>s, ConcatFacts
  <2>6. undefines' = undefines \o s
    BY <1>11, <1>12, <2>1, <2>4, <2>s, ConcatAssociative
  <2>7. undefines' \in Seq(Names \cup {None})
    <3>1. s \in Seq(Names \cup {None})
      BY <1>11, <2>4, <2>s, ConcatFacts
    <3> QED BY <1>12, <2>6, <3>1, ConcatFacts
  <2>8. atoms' \in SUBSET D /\ atoms' = (atoms \cup {a}) \cup {b}
    BY <1>3, <2>1, <2>2 DEF Typed
  <2>9. Typed' /\ Calls'
    BY <1>2, <1>3, <1>10, <2>1, <2>7, <2>8 DEF Typed, Calls, D, Libraries
  <2>10. HoldsIn(u, atoms') /\ BestIn(u, atoms')
    <3>1. HoldsIn(Add(t1, b), (atoms \cup {a}) \cup {b}) /\ BestIn(Add(t1, b), (atoms \cup {a}) \cup {b})
      BY <1>3, <1>5, <1>6, <2>2, <2>3, AddBest
    <3> QED BY <2>2, <2>8, <3>1 DEF HoldsIn, BestIn, Beaten
  <2>11. GoodTable(symtab)' /\ Holds' /\ BestDefinitionWins'
    BY <1>2, <2>1, <2>2, <2>10, SameLink
  <2>12. ASSUME NEW n \in Names
         PROVE  /\ symtab.names[n] # None => symtab'.names[n] # None
                /\ IsUndefinedName(n)' => symtab.names[n] = None \/ IsUndefinedName(n)
                /\ symtab.names[n] = None /\ IsUndefinedName(n)' => n \in ToSet(s)
                /\ n \in ToSet(s) => symtab'.names[n] # None
    <3>1. IsUndefinedName(n)' <=> Wanted(u, n)
      BY <1>2, <2>1, SameLink
    <3>2. IsUndefinedName(n) <=> Wanted(symtab, n)
      BY WantedIs
    <3>3. Wanted(u, n) => u.names[n] # None
      BY DEF Wanted
    <3>4. n \in ToSet(s) => u.names[n] # None
      <4>1. n = Name(a) => t1.names[n] # None
        BY <1>8
      <4>2. Add(t1, b).names[Name(b)] # None
        BY <1>3, <1>6, <2>2, AddEnters DEF GoodTable
      <4>3. t1.names[n] # None => Add(t1, b).names[n] # None
        BY <1>3, <1>6, <2>2, <2>3, AddWanted
      <4> QED BY <1>11, <2>2, <2>4, <2>5, <4>1, <4>2, <4>3
    <3>5. symtab.names[n] = None /\ u.names[n] # None => n \in ToSet(s)
      BY <1>11, <2>2, <2>4, <2>5
    <3> QED BY <2>1, <2>2, <3>1, <3>2, <3>3, <3>4, <3>5
  <2> QED BY <1>2, <1>3, <1>9, <2>5, <2>6, <2>9, <2>11, <2>12, TableStep
<1> QED BY <1>13, <1>14

-----------------------------------------------------------------------------
(* Theorems about the table and the search.                                *)

LEMMA NextInv == Inv /\ [Next]_vars => Inv'
<1> SUFFICES ASSUME Inv, [Next]_vars PROVE Inv'
  OBVIOUS
<1> QED BY BetweenFilesInv, AfterFilesInv, NextLibraryInv, NextUndefineInv, NextTentativeInv,
           LibraryDoneInv, DoAtomInv, DoGroupInv, DoUndefinedAtomInv DEF Next, Terminated

(* The invariant holds of every link.                                      *)
THEOREM InvHolds == Spec => []Inv
<1> QED BY InitInv, NextInv, PTL DEF Spec

(* Whatever the links and the order of their files, the atom the table has *)
(* for a name is at least as good as every one that was added for it.      *)
THEOREM BestIsChosen == Spec => []BestDefinitionWins
<1>1. Inv => BestDefinitionWins
  BY DEF Inv
<1> QED BY <1>1, InvHolds, PTL

(* A library has nothing for the names it was searched for, and the list   *)
(* of undefines has every name that is undefined.                          *)
THEOREM NeedNotSearchAgain == Spec => []SearchedForGood
<1>1. Inv => SearchedForGood
  BY DEF Inv, Listed, Searched, Done, SearchedForGood
<1> QED BY <1>1, InvHolds, PTL

-----------------------------------------------------------------------------
(* What the result is made of: the atoms of each file that is read, and of *)
(* each group that is chosen, come in as a whole, and stay or go with what *)
(* refers to them.                                                         *)

Own(a) == ToSet(link.atoms[link.atom[a].file])
IsParent(p) == link.atom[p].group # "no"
ChildOf(c, p) == <<"groupChild", c>> \in link.atom[p].refs
Gone(a) == IsCoalescedAway(symtab, a)

\* Another atom may be replaced by it.
Mergeable(a) == Name(a) # None \/ link.atom[a].merge = "content" \/ IsParent(a)

\* The table is made of the atoms K.
MadeOf(t, K) ==
  /\ DOMAIN t.replaced \subseteq K
  /\ \A c \in DOMAIN t.replaced : t.replaced[c] \in K /\ Mergeable(t.replaced[c])
  /\ \A c \in t.contents : c \in K /\ link.atom[c].merge = "content"
  /\ \A n \in DOMAIN t.groups : t.groups[n] \in K /\ IsParent(t.groups[n])

\* The atoms handleFile has yet to take.
Coming == IF phase = "handle" THEN ToSet(todo) ELSE {}
Known == atoms \cup Coming
Handled == seen \cup taken

\* An object is read once: as an input or as a member.
ReadOnce ==
  /\ \A f \in seen : \E i \in DOMAIN link.nodes : link.nodes[i].file = f
  /\ \A i \in DOMAIN link.nodes : link.nodes[i].file \notin taken

\* Files come as a whole, and groups if their parent was the first of its name.
Whole ==
  /\ \A a \in Known : Is(a, "regular") => Own(a) \subseteq Known
  /\ \A p \in atoms : IsParent(p) /\ ~Gone(p) => \A c \in D : ChildOf(c, p) => c \in Known
  /\ \A c \in Known, p \in D : ChildOf(c, p) => p \in atoms /\ ~Gone(p)

\* A parent comes once.
ParentsOnce ==
  /\ \A p \in Known : IsParent(p) => link.atom[p].file \in Handled
  /\ \A p \in atoms : IsParent(p) => p \notin Coming
  /\ phase = "handle" => \A i, j \in DOMAIN todo : IsParent(todo[i]) /\ todo[i] = todo[j] => i = j

CollectInv == Collecting => MadeOf(symtab, atoms) /\ ReadOnce /\ Whole /\ ParentsOnce

\* Where updateReferences has pointed the references, and what it declared dead.
Redirected ==
  /\ KeptDefined \subseteq DOMAIN refs /\ DOMAIN refs \subseteq D
  /\ \A a \in DOMAIN refs : refs[a] = {NewTarget(r) : r \in link.atom[a].refs}
  /\ dead = {t \in D : \E b \in D : Is(b, "regular") /\ Gone(b) /\ <<"associate", t>> \in link.atom[b].refs}
  /\ DOMAIN symtab.replaced \subseteq D
  /\ \A c \in DOMAIN symtab.replaced : symtab.replaced[c] \in D /\ Mergeable(symtab.replaced[c])

\* What stays has what it refers to, and children have their parent.
Together ==
  /\ \A a \in KeptDefined : ~Gone(a) =>
       \A r \in refs[a] : r[1] # "associate" => r[2] \in atoms /\ ~Gone(r[2])
  /\ \A c \in atoms, p \in D : ChildOf(c, p) => ~Gone(p) /\ (~Gone(c) => p \in atoms)

\* markLive has been called with what the live atoms lead to.
Marked ==
  \A a \in live \cap KeptDefined : {r[2] : r \in refs[a]} \cup Referrers(a) \subseteq live \cup pending

ResultInv ==
  /\ Collecting => live = {}
  /\ phase \in {"mark", "check", "linked"} => atoms \subseteq D /\ Redirected /\ Together
  /\ phase = "mark" => Marked
  /\ phase = "linked" => \A a \in atoms : ~Gone(a)

-----------------------------------------------------------------------------
(* Following replacements.                                                 *)

\* The end of a chain of replacements is where it began or a replacement.
LEMMA ReplacementFacts ==
  ASSUME NEW t, IsFiniteSet(DOMAIN t.replaced), NEW K,
         \A c \in DOMAIN t.replaced : t.replaced[c] \in K, NEW x \in K
  PROVE  /\ Replacement(t, x) \in K
         /\ x \notin DOMAIN t.replaced => Replacement(t, x) = x
         /\ \/ Replacement(t, x) = x
            \/ \E c \in DOMAIN t.replaced : Replacement(t, x) = t.replaced[c]
<1> DEFINE Step(f) == f = [i \in Nat |->
                            IF i = 0 THEN x
                            ELSE LET b == f[i - 1] IN IF IsCoalescedAway(t, b) THEN t.replaced[b] ELSE b]
           chain == CHOOSE f : Step(f)
           next1 == [b \in K |-> IF IsCoalescedAway(t, b) THEN t.replaced[b] ELSE b]
<1>1. Step(chain)
  <2>1. next1 \in [K -> K]
    BY DEF IsCoalescedAway
  <2>2. PICK f \in [Nat -> K] : f[0] = x /\ \A n \in Nat : f[n + 1] = next1[f[n]]
    <3> HIDE DEF next1
    <3>1. \E f : Orbit(f, K, next1, x)
      BY <2>1, Iterate
    <3> QED BY <3>1 DEF Orbit
  <2>3. ASSUME NEW i \in Nat, i # 0
        PROVE  f[i] = LET b == f[i - 1] IN IF IsCoalescedAway(t, b) THEN t.replaced[b] ELSE b
    <3>1. i - 1 \in Nat /\ (i - 1) + 1 = i
      BY <2>3
    <3>2. f[i] = next1[f[i - 1]] /\ f[i - 1] \in K
      BY <2>2, <3>1
    <3> QED BY <3>2
  <2>4. Step(f)
    BY <2>2, <2>3
  <2> QED BY <2>4
<1> HIDE DEF chain
<1> DEFINE Good(y) == /\ y \in K
                      /\ x \notin DOMAIN t.replaced => y = x
                      /\ y = x \/ \E c \in DOMAIN t.replaced : y = t.replaced[c]
           T == {i \in Nat : Good(chain[i])}
<1>2. 0 \in T
  BY <1>1
<1>3. ASSUME NEW i \in T PROVE i + 1 \in T
  <2>1. i \in Nat /\ i + 1 \in Nat /\ i + 1 # 0 /\ (i + 1) - 1 = i /\ Good(chain[i])
    OBVIOUS
  <2>2. chain[i + 1] = IF IsCoalescedAway(t, chain[i]) THEN t.replaced[chain[i]] ELSE chain[i]
    BY <1>1, <2>1
  <2>3. Good(chain[i + 1])
    BY <2>1, <2>2 DEF IsCoalescedAway
  <2> QED BY <2>1, <2>3
<1> HIDE DEF T
<1>4. T \in SUBSET Nat
  BY DEF T
<1>5. T = Nat
  BY <1>2, <1>3, <1>4, Induction
<1>6. Cardinality(DOMAIN t.replaced) \in Nat
  BY FS_CardinalityType
<1>7. Replacement(t, x) = chain[Cardinality(DOMAIN t.replaced)]
  BY DEF Replacement, chain
<1> QED BY <1>5, <1>6, <1>7 DEF T

-----------------------------------------------------------------------------
(* The table is made of the atoms that were added.                         *)

\* Adding an atom.
LEMMA AddMade ==
  ASSUME link \in Links, NEW t, IsTable(t), NEW K, MadeOf(t, K),
         \A n \in Names : t.names[n] # None => t.names[n] \in K,
         NEW a \in D, Is(a, "regular") => link.atom[a].group = "no",
         NEW u, u = Add(t, a)
  PROVE  /\ MadeOf(u, K \cup {a})
         /\ DOMAIN t.replaced \subseteq DOMAIN u.replaced
         /\ \A c \in DOMAIN u.replaced :
              c \in DOMAIN t.replaced \/ c = a \/ \E n \in Names : c = t.names[n] /\ Nameable(c)
<1> DEFINE e == t.names[Name(a)]
<1>1. Name(a) \in Names \cup {None} /\ a # None
  BY AtomFacts
<1>2. CASE u = t
  BY <1>2 DEF MadeOf
<1>3. CASE Name(a) # None /\ u # t
  <2>1. Name(a) \in Names /\ u = AddByName(t, a)
    BY <1>1, <1>3 DEF Add
  <2>2. CASE e = None
    <3>1. u = [t EXCEPT !.names[Name(a)] = a]
      BY <1>1, <2>1, <2>2 DEF AddByName
    <3>2. u.replaced = t.replaced /\ u.contents = t.contents /\ u.groups = t.groups
      BY <3>1 DEF IsTable
    <3> QED BY <3>2 DEF MadeOf
  <2>3. CASE e # None
    <3>1. e \in K /\ Nameable(e) /\ Name(e) = Name(a)
      BY <2>1, <2>3 DEF IsTable
    <3>2. \/ u = [t EXCEPT !.names[Name(a)] = a, !.replaced = Put(@, e, a)]
          \/ u = [t EXCEPT !.replaced = Put(@, a, e)]
      BY <1>3, <2>1, <2>3 DEF AddByName
    <3>3. /\ u.contents = t.contents /\ u.groups = t.groups
          /\ u.replaced = Put(t.replaced, e, a) \/ u.replaced = Put(t.replaced, a, e)
      BY <3>2 DEF IsTable
    <3>4. Mergeable(e) /\ Mergeable(a)
      BY <1>3, <3>1 DEF Mergeable
    <3> HIDE DEF e
    <3>5. CASE u.replaced = Put(t.replaced, e, a)
      BY <2>1, <3>1, <3>3, <3>4, <3>5 DEF MadeOf, Put, e
    <3>6. CASE u.replaced = Put(t.replaced, a, e)
      BY <3>1, <3>3, <3>4, <3>6 DEF MadeOf, Put
    <3> QED BY <3>3, <3>5, <3>6
  <2> QED BY <2>2, <2>3
<1>4. CASE Name(a) = None /\ u # t
  <2>1. link.atom[a].merge = "content" /\ u = AddByContent(t, a)
    BY <1>4 DEF Add
  <2>2. \/ u = [t EXCEPT !.contents = @ \cup {a}]
        \/ \E e1 \in t.contents : u = [t EXCEPT !.replaced = Put(@, a, e1)]
    BY <2>1 DEF AddByContent
  <2>3. CASE u = [t EXCEPT !.contents = @ \cup {a}]
    <3>1. u.replaced = t.replaced /\ u.contents = t.contents \cup {a} /\ u.groups = t.groups
      BY <2>3 DEF IsTable
    <3> QED BY <2>1, <3>1 DEF MadeOf
  <2>4. CASE \E e1 \in t.contents : u = [t EXCEPT !.replaced = Put(@, a, e1)]
    <3>1. PICK e1 \in t.contents : u = [t EXCEPT !.replaced = Put(@, a, e1)]
      BY <2>4
    <3>2. u.replaced = Put(t.replaced, a, e1) /\ u.contents = t.contents /\ u.groups = t.groups
      BY <3>1 DEF IsTable
    <3>3. e1 \in K /\ Mergeable(e1)
      BY DEF MadeOf, Mergeable
    <3> QED BY <3>2, <3>3 DEF MadeOf, Put
  <2> QED BY <2>2, <2>3, <2>4
<1> QED BY <1>2, <1>3, <1>4

\* A name that falls back to another.
LEMMA FallBackMade ==
  ASSUME link \in Links, NEW t, IsTable(t), NEW K, MadeOf(t, K),
         \A n \in Names : t.names[n] # None => t.names[n] \in K,
         NEW a \in D, Is(a, "undefined"), NEW b \in D, Is(b, "undefined"),
         NEW u, u = FallBack(t, a, b)
  PROVE  /\ MadeOf(u, K \cup {a, b})
         /\ DOMAIN t.replaced \subseteq DOMAIN u.replaced
         /\ \A c \in DOMAIN u.replaced : c \in DOMAIN t.replaced \/ ~IsParent(c)
<1>1. PICK t1 : t1 = Add(t, a)
  OBVIOUS
<1>2. PICK t2 : t2 = Add(t1, b)
  OBVIOUS
<1>3. ~Is(a, "regular") /\ ~Is(b, "regular") /\ Name(b) # None
  BY AtomFacts, NoneAssumption DEF Is
<1>n. \A c : c \in D /\ ~Is(c, "regular") => ~IsParent(c)
  BY GroupAssumption DEF Is, IsParent, D
<1>p. \A c : Nameable(c) => ~IsParent(c)
  BY <1>n DEF Nameable, IsParent
<1>4. /\ IsTable(t1) /\ \A n \in Names : t1.names[n] = t.names[n] \/ t1.names[n] = a
      /\ MadeOf(t1, K \cup {a}) /\ DOMAIN t.replaced \subseteq DOMAIN t1.replaced
      /\ \A c \in DOMAIN t1.replaced : c \in DOMAIN t.replaced \/ ~IsParent(c)
  <2>1. /\ IsTable(t1)
        /\ \A n \in Names : n # Name(a) => t1.names[n] = t.names[n]
        /\ Name(a) = None => t1.names = t.names
        /\ Name(a) # None => t1.names[Name(a)] \in {a, t.names[Name(a)]}
    BY <1>1, <1>3, AddCases
  <2>2. \A n \in Names : t1.names[n] = t.names[n] \/ t1.names[n] = a
    BY <2>1, NoneAssumption
  <2>3. /\ MadeOf(t1, K \cup {a}) /\ DOMAIN t.replaced \subseteq DOMAIN t1.replaced
        /\ \A c \in DOMAIN t1.replaced :
             c \in DOMAIN t.replaced \/ c = a \/ \E n \in Names : c = t.names[n] /\ Nameable(c)
    BY <1>1, <1>3, AddMade
  <2> QED BY <1>3, <1>n, <1>p, <2>1, <2>2, <2>3
<1>5. /\ IsTable(t2) /\ MadeOf(t2, (K \cup {a}) \cup {b})
      /\ DOMAIN t1.replaced \subseteq DOMAIN t2.replaced
      /\ \A c \in DOMAIN t2.replaced : c \in DOMAIN t1.replaced \/ ~IsParent(c)
  <2>1. \A n \in Names : t1.names[n] # None => t1.names[n] \in K \cup {a}
    BY <1>4
  <2>2. IsTable(t2)
    BY <1>2, <1>3, <1>4, AddCases
  <2>3. /\ MadeOf(t2, (K \cup {a}) \cup {b}) /\ DOMAIN t1.replaced \subseteq DOMAIN t2.replaced
        /\ \A c \in DOMAIN t2.replaced :
             c \in DOMAIN t1.replaced \/ c = b \/ \E n \in Names : c = t1.names[n] /\ Nameable(c)
    BY <1>2, <1>3, <1>4, <2>1, AddMade
  <2> QED BY <1>3, <1>n, <1>p, <2>2, <2>3
<1>6. u.replaced = Put(t2.replaced, a, b) /\ u.contents = t2.contents /\ u.groups = t2.groups
  <2>1. u = [t2 EXCEPT !.replaced = Put(@, a, b)]
    BY <1>1, <1>2 DEF FallBack
  <2> QED BY <1>5, <2>1 DEF IsTable
<1>7. Mergeable(b)
  BY <1>3 DEF Mergeable
<1> QED BY <1>3, <1>4, <1>5, <1>6, <1>7, <1>n DEF MadeOf, Put

-----------------------------------------------------------------------------
(* Reading keeps files and groups whole.                                   *)

\* What the assumptions say of groups, in terms of the link at hand.
LEMMA GroupFacts ==
  ASSUME link \in Links, NEW p \in D
  PROVE  /\ IsParent(p) => Is(p, "regular")
         /\ \A c : ChildOf(c, p) =>
              /\ c \in D /\ Is(c, "regular") /\ ~IsParent(c) /\ IsParent(p)
              /\ link.atom[c].file = link.atom[p].file /\ c \notin Own(c)
              /\ \A q \in D : ChildOf(c, q) => q = p
<1>1. link.atom[p] \in AtomRecords
  BY AtomFacts
<1>2. \A c : ChildOf(c, p) => c \in Atoms
  BY <1>1 DEF AtomRecords, ChildOf
<1> QED BY <1>2, GroupAssumption DEF D, IsParent, Is, ChildOf, Own

\* And of the atoms of a file.
LEMMA OwnFacts ==
  ASSUME link \in Links, NEW f \in Files
  PROVE  /\ link.atoms[f] \in Seq(D)
         /\ \A a \in ToSet(link.atoms[f]) :
              /\ a \in D /\ link.atom[a].file = f /\ Own(a) = ToSet(link.atoms[f])
              /\ link.kind[f] # "object" => ~Is(a, "regular")
         /\ \A i, j \in DOMAIN link.atoms[f] : link.atoms[f][i] = link.atoms[f][j] => i = j
<1>1. link.atoms[f] \in Seq(D)
  BY LinkAssumption DEF D
<1>2. \A i \in DOMAIN link.atoms[f] : link.atoms[f][i] \in D
  BY <1>1, ElementOfSeq, LenProperties
<1> QED BY <1>1, <1>2, FileAssumption DEF ToSet, Own, Is

\* The parts of a state in which files are read.
LEMMA CollectParts ==
  ASSUME Inv, CollectInv, Collecting
  PROVE  /\ link \in Links /\ atoms \subseteq D /\ todo \in Seq(D) /\ Coming \subseteq D
         /\ Known \subseteq D /\ IsTable(symtab)
         /\ \A n \in Names : symtab.names[n] # None => symtab.names[n] \in atoms
         /\ MadeOf(symtab, atoms) /\ ReadOnce /\ Whole /\ ParentsOnce
<1>1. todo \in Seq(D)
  BY DEF Inv, Typed
<1>2. ToSet(todo) \subseteq D
  BY <1>1, ElementOfSeq, LenProperties DEF ToSet
<1> QED BY <1>1, <1>2 DEF Inv, Typed, Coming, Known, GoodTable, Holds, CollectInv

\* Steps that bring no atoms.
LEMMA UnmovedCollect ==
  ASSUME Inv, CollectInv, Collecting, link' = link, symtab' = symtab, atoms' = atoms,
         Coming' = Coming, phase' = "handle" => phase = "handle" /\ todo' = todo,
         seen \subseteq seen', taken \subseteq taken', ReadOnce'
  PROVE  CollectInv'
<1>1. MadeOf(symtab, atoms) /\ Whole /\ ParentsOnce
  BY CollectParts
<1>2. Known' = Known /\ Handled \subseteq Handled' /\ D' = D
  BY DEF Known, Handled, D
<1>3. MadeOf(symtab, atoms)'
  BY <1>1 DEF MadeOf, Mergeable, IsParent, Name
<1>4. Whole'
  BY <1>1, <1>2 DEF Whole, Is, Own, IsParent, Gone, IsCoalescedAway, ChildOf
<1>5. ParentsOnce'
  BY <1>1, <1>2 DEF ParentsOnce, IsParent
<1> QED BY <1>3, <1>4, <1>5 DEF CollectInv

\* A file is begun that has not been read, or has no defined atoms.
LEMMA BeginCollect ==
  ASSUME Inv, CollectInv, Collecting, phase # "handle", phase' = "handle",
         link' = link, symtab' = symtab, atoms' = atoms, seen \subseteq seen', taken \subseteq taken',
         NEW f \in Files, todo' = link.atoms[f],
         link.kind[f] = "object" => f \notin Handled /\ f \in Handled',
         ReadOnce'
  PROVE  CollectInv'
<1>1. link \in Links /\ atoms \subseteq D /\ MadeOf(symtab, atoms) /\ Whole /\ ParentsOnce
  BY CollectParts
<1> DEFINE L == ToSet(link.atoms[f])
<1>2. Known = atoms /\ Coming' = L /\ Known' = atoms \cup L /\ Handled \subseteq Handled' /\ D' = D
  BY DEF Known, Coming, Handled, D
<1>3. /\ \A a \in L : /\ a \in D /\ link.atom[a].file = f /\ Own(a) = L
                      /\ link.kind[f] # "object" => ~Is(a, "regular")
      /\ \A i, j \in DOMAIN link.atoms[f] : link.atoms[f][i] = link.atoms[f][j] => i = j
  BY <1>1, OwnFacts
<1> HIDE DEF L
<1>4. MadeOf(symtab, atoms)'
  BY <1>1 DEF MadeOf, Mergeable, IsParent, Name
<1>5. Whole'
  <2>1. \A a \in Known' : Is(a, "regular") => Own(a) \subseteq Known'
    BY <1>1, <1>2, <1>3 DEF Whole
  <2>2. \A p \in atoms : IsParent(p) /\ ~Gone(p) => \A c \in D : ChildOf(c, p) => c \in Known'
    BY <1>1, <1>2 DEF Whole
  <2>3. ASSUME NEW c \in Known', NEW p \in D, ChildOf(c, p) PROVE p \in atoms /\ ~Gone(p)
    <3>1. c \notin Own(c)
      BY <1>1, <2>3, GroupFacts
    <3>2. c \notin L
      BY <1>3, <3>1
    <3> QED BY <1>1, <1>2, <2>3, <3>2 DEF Whole
  <2> QED BY <1>2, <2>1, <2>2, <2>3 DEF Whole, Is, Own, IsParent, Gone, IsCoalescedAway, ChildOf
<1>6. ParentsOnce'
  <2>1. ASSUME NEW p \in L, IsParent(p) PROVE f \notin Handled /\ f \in Handled' /\ link.atom[p].file = f
    <3>1. Is(p, "regular")
      BY <1>1, <1>3, <2>1, GroupFacts
    <3> QED BY <1>3, <3>1
  <2>2. \A p \in Known' : IsParent(p) => link.atom[p].file \in Handled'
    BY <1>1, <1>2, <2>1 DEF ParentsOnce
  <2>3. \A p \in atoms : IsParent(p) => p \notin L
    BY <1>1, <1>2, <2>1 DEF ParentsOnce
  <2> QED BY <1>2, <1>3, <2>2, <2>3 DEF ParentsOnce, IsParent
<1> QED BY <1>4, <1>5, <1>6 DEF CollectInv

\* What a shared library exports is added.
LEMMA ExportCollect ==
  ASSUME Inv, CollectInv, Collecting, phase # "handle", phase' = "handle",
         link' = link, symtab' = symtab, atoms' = atoms, seen \subseteq seen', taken \subseteq taken',
         NEW s \in D, ~Is(s, "regular"), todo' = <<s>>, ReadOnce'
  PROVE  CollectInv'
<1>1. link \in Links /\ atoms \subseteq D /\ MadeOf(symtab, atoms) /\ Whole /\ ParentsOnce
  BY CollectParts
<1>2. Known = atoms /\ Coming' = {s} /\ Known' = atoms \cup {s} /\ Handled \subseteq Handled' /\ D' = D
  BY DEF Known, Coming, Handled, D, ToSet
<1>3. ~IsParent(s) /\ \A p \in D : ~ChildOf(s, p)
  BY <1>1, GroupFacts
<1>4. MadeOf(symtab, atoms)'
  BY <1>1 DEF MadeOf, Mergeable, IsParent, Name
<1>5. Whole'
  <2>1. \A a \in Known' : Is(a, "regular") => Own(a) \subseteq Known'
    BY <1>1, <1>2 DEF Whole
  <2>2. \A p \in atoms : IsParent(p) /\ ~Gone(p) => \A c \in D : ChildOf(c, p) => c \in Known'
    BY <1>1, <1>2 DEF Whole
  <2>3. \A c \in Known', p \in D : ChildOf(c, p) => p \in atoms /\ ~Gone(p)
    BY <1>1, <1>2, <1>3 DEF Whole
  <2> QED BY <1>2, <2>1, <2>2, <2>3 DEF Whole, Is, Own, IsParent, Gone, IsCoalescedAway, ChildOf
<1>6. ParentsOnce'
  BY <1>1, <1>2, <1>3 DEF ParentsOnce, IsParent
<1> QED BY <1>4, <1>5, <1>6 DEF CollectInv

\* A list, its head and its tail.
LEMMA TailParts ==
  ASSUME NEW S, NEW s \in Seq(S), s # <<>>
  PROVE  /\ ToSet(s) = {Head(s)} \cup ToSet(Tail(s)) /\ Tail(s) \in Seq(S)
         /\ DOMAIN s = 1 .. Len(s) /\ DOMAIN Tail(s) = 1 .. Len(s) - 1
         /\ Len(s) \in Nat \ {0} /\ Head(s) = s[1]
         /\ \A i \in 1 .. Len(s) - 1 : Tail(s)[i] = s[i + 1]
<1>1. /\ Tail(s) \in Seq(S) /\ Len(Tail(s)) = Len(s) - 1
      /\ Len(s) \in Nat \ {0} /\ DOMAIN s = 1 .. Len(s) /\ DOMAIN Tail(s) = 1 .. Len(Tail(s))
  BY HeadTailProperties, EmptySeq, LenProperties
<1>2. Head(s) = s[1] /\ \A i \in 1 .. Len(s) - 1 : Tail(s)[i] = s[i + 1]
  BY <1>1
<1>3. ASSUME NEW i \in 1 .. Len(s) PROVE s[i] \in {Head(s)} \cup ToSet(Tail(s))
  <2>1. CASE i = 1
    BY <1>2, <2>1
  <2>2. CASE i # 1
    <3>1. i - 1 \in DOMAIN Tail(s) /\ (i - 1) + 1 = i /\ i - 1 \in 1 .. Len(s) - 1
      BY <1>1, <2>2
    <3>2. Tail(s)[i - 1] = s[i]
      BY <1>2, <3>1
    <3> QED BY <3>1, <3>2 DEF ToSet
  <2> QED BY <2>1, <2>2
<1>4. \A i \in DOMAIN Tail(s) : Tail(s)[i] \in ToSet(s)
  BY <1>1, <1>2 DEF ToSet
<1>5. Head(s) \in ToSet(s)
  BY <1>1, <1>2 DEF ToSet
<1>6. ToSet(s) = {Head(s)} \cup ToSet(Tail(s))
  BY <1>1, <1>3, <1>4, <1>5 DEF ToSet
<1> QED BY <1>1, <1>2, <1>6

\* The head of the list is added, perhaps with its fallback; if it is the parent
\* of a group, another group of its name has been chosen.
LEMMA TakeCollect ==
  ASSUME Inv, CollectInv, phase = "handle", todo # <<>>, NEW a, a = Head(todo),
         phase' = "handle", link' = link, todo' = Tail(todo),
         UNCHANGED <<seen, taken>>,
         NEW B \in SUBSET D, a \in B, \A b \in B : b = a \/ ~Is(b, "regular"), atoms' = atoms \cup B,
         MadeOf(symtab', atoms \cup B),
         DOMAIN symtab.replaced \subseteq DOMAIN symtab'.replaced,
         \A c \in DOMAIN symtab'.replaced : c \in DOMAIN symtab.replaced \/ ~IsParent(c) \/ c = a,
         IsParent(a) => a \in DOMAIN symtab'.replaced
  PROVE  CollectInv'
<1>1. /\ link \in Links /\ atoms \subseteq D /\ todo \in Seq(D) /\ Coming \subseteq D
      /\ ReadOnce /\ Whole /\ ParentsOnce
  BY CollectParts DEF Collecting
<1>2. /\ ToSet(todo) = {a} \cup ToSet(Tail(todo)) /\ Tail(todo) \in Seq(D)
      /\ DOMAIN todo = 1 .. Len(todo) /\ DOMAIN Tail(todo) = 1 .. Len(todo) - 1
      /\ Len(todo) \in Nat \ {0} /\ a = todo[1]
      /\ \A i \in 1 .. Len(todo) - 1 : Tail(todo)[i] = todo[i + 1]
  BY <1>1, TailParts
<1>3. /\ Coming = {a} \cup ToSet(Tail(todo)) /\ Coming' = ToSet(Tail(todo))
      /\ Known' = Known \cup B /\ Handled' = Handled /\ D' = D
  BY <1>2 DEF Known, Coming, Handled, D
<1>4. MadeOf(symtab, atoms)'
  BY DEF MadeOf, Mergeable, IsParent, Name
<1>5. a \in Coming /\ (IsParent(a) => a \notin atoms)
  BY <1>1, <1>3 DEF ParentsOnce
<1>6. \A b \in B : b \in Known \/ ~Is(b, "regular")
  BY <1>5 DEF Known
<1>7. \A p \in atoms : IsParent(p) => (Gone(p)' <=> Gone(p))
  BY <1>5 DEF Gone, IsCoalescedAway
<1>8. \A b \in B : IsParent(b) => b = a
  BY <1>1, GroupFacts
<1>9. Whole'
  <2>1. \A b \in Known' : Is(b, "regular") => Own(b) \subseteq Known'
    BY <1>1, <1>3, <1>6 DEF Whole
  <2>2. \A p \in atoms' : IsParent(p) /\ ~Gone(p)' => \A c \in D : ChildOf(c, p) => c \in Known'
    <3>1. IsParent(a) => Gone(a)'
      BY DEF Gone, IsCoalescedAway
    <3> QED BY <1>1, <1>3, <1>7, <1>8, <3>1 DEF Whole
  <2>3. ASSUME NEW c \in Known', NEW p \in D, ChildOf(c, p) PROVE p \in atoms' /\ ~Gone(p)'
    <3>1. IsParent(p) /\ Is(c, "regular")
      BY <1>1, <2>3, GroupFacts
    <3>2. c \in Known
      BY <1>3, <1>6, <3>1
    <3> QED BY <1>1, <1>7, <2>3, <3>1, <3>2 DEF Whole
  <2> QED BY <1>3, <2>1, <2>2, <2>3 DEF Whole, Is, Own, IsParent, ChildOf
<1>10. ParentsOnce'
  <2>1. ASSUME NEW i \in DOMAIN Tail(todo), NEW j \in DOMAIN Tail(todo),
               IsParent(Tail(todo)[i]), Tail(todo)[i] = Tail(todo)[j]
        PROVE  i = j
    <3>1. i + 1 \in DOMAIN todo /\ j + 1 \in DOMAIN todo /\ todo[i + 1] = todo[j + 1] /\ IsParent(todo[i + 1])
      BY <1>2, <2>1
    <3>2. i + 1 = j + 1
      BY <1>1, <3>1 DEF ParentsOnce
    <3> QED BY <1>2, <3>2
  <2>2. IsParent(a) => a \notin ToSet(Tail(todo))
    <3> SUFFICES ASSUME IsParent(a), NEW i \in DOMAIN Tail(todo), a = Tail(todo)[i] PROVE FALSE
      BY DEF ToSet
    <3>1. i + 1 \in DOMAIN todo /\ 1 \in DOMAIN todo /\ todo[i + 1] = todo[1] /\ i + 1 # 1
      BY <1>2
    <3> QED BY <1>1, <1>2, <3>1 DEF ParentsOnce
  <2>3. \A p \in Known' : IsParent(p) => link.atom[p].file \in Handled'
    BY <1>1, <1>3, <1>5, <1>8 DEF ParentsOnce, Known
  <2>4. \A p \in atoms' : IsParent(p) => p \notin Coming'
    BY <1>1, <1>3, <1>8, <2>2 DEF ParentsOnce
  <2> QED BY <2>1, <2>3, <2>4 DEF ParentsOnce, IsParent
<1> QED BY <1>1, <1>4, <1>9, <1>10 DEF CollectInv, ReadOnce

\* A group is chosen: its children are next.
LEMMA ChosenCollect ==
  ASSUME Inv, CollectInv, phase = "handle", todo # <<>>, NEW a, a = Head(todo), IsParent(a),
         phase' = "handle", link' = link, UNCHANGED <<seen, taken>>,
         todo' = Children(a) \o Tail(todo), atoms' = atoms \cup {a},
         symtab' = [symtab EXCEPT !.groups = Put(@, Name(a), a)]
  PROVE  CollectInv'
<1>1. /\ link \in Links /\ atoms \subseteq D /\ todo \in Seq(D) /\ Coming \subseteq D
      /\ MadeOf(symtab, atoms) /\ IsTable(symtab) /\ ReadOnce /\ Whole /\ ParentsOnce
  BY CollectParts DEF Collecting
<1>2. /\ ToSet(todo) = {a} \cup ToSet(Tail(todo)) /\ Tail(todo) \in Seq(D)
      /\ DOMAIN todo = 1 .. Len(todo) /\ DOMAIN Tail(todo) = 1 .. Len(todo) - 1
      /\ Len(todo) \in Nat \ {0} /\ a = todo[1]
      /\ \A i \in 1 .. Len(todo) - 1 : Tail(todo)[i] = todo[i + 1]
  BY <1>1, TailParts
<1>3. /\ a \in Coming /\ a \in D /\ a \notin atoms /\ ~Gone(a) /\ Is(a, "regular")
      /\ Coming = {a} \cup ToSet(Tail(todo))
  <2>1. a \in Coming /\ Coming = {a} \cup ToSet(Tail(todo))
    BY <1>2 DEF Coming
  <2>2. a \in D /\ a \notin atoms
    BY <1>1, <2>1 DEF ParentsOnce
  <2> QED BY <1>1, <2>1, <2>2, GroupFacts DEF MadeOf, Gone, IsCoalescedAway
<1> DEFINE C == {c \in D : ChildOf(c, a)}
<1>4. ToSet(Children(a)) = C /\ Children(a) \in Seq(D) /\ Children(a) \in Seq(C)
  <2>1. IsFiniteSet(C)
    BY LinkFacts, FS_Subset
  <2>2. Children(a) = SetToSeq(C)
    BY DEF Children, ChildOf, D
  <2>3. C \in SUBSET D
    OBVIOUS
  <2> HIDE DEF C
  <2> QED BY <2>1, <2>2, <2>3, SetToSeqFacts, SeqMonotonic
<1>5. \A c \in C : /\ c \in D /\ Is(c, "regular") /\ ~IsParent(c) /\ Own(c) = Own(a)
                   /\ \A q \in D : ChildOf(c, q) => q = a
  BY <1>1, <1>3, GroupFacts DEF Own
<1>6. \A c \in D : ChildOf(c, a) => c \in C
  OBVIOUS
<1>c. \A c \in C : ChildOf(c, a)
  OBVIOUS
<1> HIDE DEF C
<1>7. /\ Coming' = C \cup ToSet(Tail(todo)) /\ Known' = Known \cup C
      /\ Handled' = Handled /\ D' = D
  <2>1. ToSet(Children(a) \o Tail(todo)) = C \cup ToSet(Tail(todo))
    <3> DEFINE s == Children(a)
               t == Tail(todo)
    <3>1. s \in Seq(D) /\ t \in Seq(D) /\ ToSet(s) = C
      BY <1>2, <1>4
    <3> HIDE DEF s, t
    <3>2. ToSet(s \o t) = ToSet(s) \cup ToSet(t)
      BY <3>1, ConcatFacts
    <3> QED BY <3>1, <3>2 DEF s, t
  <2>2. Coming' = C \cup ToSet(Tail(todo))
    BY <2>1 DEF Coming
  <2> QED BY <1>3, <2>2 DEF Known, Handled, D
<1>8. /\ symtab'.replaced = symtab.replaced /\ symtab'.contents = symtab.contents
      /\ symtab'.groups = Put(symtab.groups, Name(a), a)
  BY <1>1 DEF IsTable
<1>9. MadeOf(symtab, atoms)'
  BY <1>1, <1>8 DEF MadeOf, Mergeable, IsParent, Name, Put
<1>10. Whole'
  <2>1. \A b \in Known' : Is(b, "regular") => Own(b) \subseteq Known'
    BY <1>1, <1>3, <1>5, <1>7 DEF Whole, Known
  <2>2. \A p \in atoms' : IsParent(p) /\ ~Gone(p) => \A c \in D : ChildOf(c, p) => c \in Known'
    BY <1>1, <1>6, <1>7 DEF Whole
  <2>3. \A c \in Known', p \in D : ChildOf(c, p) => p \in atoms' /\ ~Gone(p)
    BY <1>1, <1>3, <1>5, <1>7 DEF Whole
  <2> QED BY <1>7, <1>8, <2>1, <2>2, <2>3 DEF Whole, Is, Own, IsParent, Gone, IsCoalescedAway, ChildOf
<1>11. ParentsOnce'
  <2>1. \A p \in Known' : IsParent(p) => link.atom[p].file \in Handled'
    BY <1>1, <1>5, <1>7 DEF ParentsOnce
  <2>2. a \notin ToSet(Tail(todo))
    <3> SUFFICES ASSUME NEW i \in DOMAIN Tail(todo), a = Tail(todo)[i] PROVE FALSE
      BY DEF ToSet
    <3>1. i + 1 \in DOMAIN todo /\ 1 \in DOMAIN todo /\ todo[i + 1] = todo[1] /\ i + 1 # 1
      BY <1>2
    <3> QED BY <1>1, <1>2, <3>1 DEF ParentsOnce
  <2>3. \A p \in atoms' : IsParent(p) => p \notin Coming'
    BY <1>1, <1>3, <1>5, <1>7, <2>2 DEF ParentsOnce
  <2>4. ASSUME NEW i \in DOMAIN todo', NEW j \in DOMAIN todo', IsParent(todo'[i]), todo'[i] = todo'[j]
        PROVE  i = j
    <3> DEFINE s == Children(a)
               t == Tail(todo)
    <3>1. /\ DOMAIN (s \o t) = 1 .. Len(s) + Len(t) /\ Len(s) \in Nat /\ Len(t) \in Nat
          /\ DOMAIN s = 1 .. Len(s) /\ DOMAIN t = 1 .. Len(t)
          /\ \A k \in 1 .. Len(s) + Len(t) : (s \o t)[k] = IF k <= Len(s) THEN s[k] ELSE t[k - Len(s)]
      BY <1>2, <1>4, ConcatProperties, LenProperties
    <3>2. \A k \in DOMAIN s : ~IsParent(s[k])
      BY <1>4, <1>5 DEF ToSet
    <3>3. todo' = s \o t
      OBVIOUS
    <3>4. Len(t) = Len(todo) - 1
      BY <1>2, <3>1
    <3> HIDE DEF s, t
    <3>5. ASSUME NEW k \in DOMAIN todo', IsParent(todo'[k])
          PROVE  k - Len(s) + 1 \in DOMAIN todo /\ todo[k - Len(s) + 1] = todo'[k] /\ k \in Nat
      <4>1. k \in 1 .. Len(s) + Len(t)
        BY <3>1, <3>3
      <4>2. ~(k <= Len(s))
        <5> SUFFICES ASSUME k <= Len(s) PROVE FALSE
          OBVIOUS
        <5>1. k \in DOMAIN s /\ todo'[k] = s[k]
          BY <3>1, <3>3, <4>1
        <5> QED BY <3>2, <3>5, <5>1
      <4>k. k \in Nat /\ k > Len(s) /\ k - Len(s) \in 1 .. Len(t)
        BY <3>1, <4>1, <4>2
      <4>3. todo'[k] = t[k - Len(s)] /\ k - Len(s) \in 1 .. Len(todo) - 1
        BY <3>1, <3>3, <3>4, <4>1, <4>2, <4>k
      <4>4. t[k - Len(s)] = todo[(k - Len(s)) + 1]
        BY <1>2, <4>3 DEF t
      <4>5. k \in Nat /\ Len(s) \in Nat /\ Len(todo) \in Nat /\ DOMAIN todo = 1 .. Len(todo)
        BY <1>2, <3>1, <4>k
      <4>6. k - Len(s) + 1 \in 1 .. Len(todo)
        BY <4>3, <4>5
      <4> QED BY <4>3, <4>4, <4>5, <4>6
    <3>6. IsParent(todo'[j])
      BY <2>4
    <3>7. /\ i - Len(s) + 1 \in DOMAIN todo /\ todo[i - Len(s) + 1] = todo'[i] /\ i \in Nat
          /\ j - Len(s) + 1 \in DOMAIN todo /\ todo[j - Len(s) + 1] = todo'[j] /\ j \in Nat
      BY <2>4, <3>5, <3>6
    <3>8. i - Len(s) + 1 = j - Len(s) + 1
      BY <1>1, <2>4, <3>7 DEF ParentsOnce
    <3> QED BY <3>1, <3>7, <3>8
  <2> QED BY <2>1, <2>3, <2>4 DEF ParentsOnce, IsParent
<1> QED BY <1>1, <1>9, <1>10, <1>11 DEF CollectInv, ReadOnce

LEMMA InitCollect == Init => CollectInv
<1> SUFFICES ASSUME Init PROVE CollectInv
  OBVIOUS
<1> USE DEF Init
<1>1. Known = {} /\ Coming = {} /\ atoms = {}
  BY DEF Known, Coming
<1>2. MadeOf(symtab, atoms)
  BY DEF MadeOf
<1> QED BY <1>1, <1>2 DEF CollectInv, ReadOnce, Whole, ParentsOnce

\* Going through the nodes.
LEMMA NodeCollect ==
  ASSUME Inv, CollectInv, EndGroup \/ CannotOpen \/ NextObject \/ NextLibrary \/ NodesDone
  PROVE  CollectInv'
<1> USE DEF reading, searching, tables, stripping
<1>1. phase = "next" /\ Collecting /\ link' = link /\ symtab' = symtab /\ atoms' = atoms /\ taken' = taken
  BY DEF EndGroup, CannotOpen, NextObject, NextLibrary, NodesDone, AtNode, AtFile, Collecting
<1>2. Coming = {} /\ ReadOnce
  BY <1>1, CollectParts DEF Coming
<1>3. CASE EndGroup \/ NodesDone
  <2>1. Coming' = {} /\ phase' # "handle" /\ seen' = seen
    BY <1>1, <1>3 DEF EndGroup, NodesDone, Coming
  <2>2. ReadOnce'
    BY <1>1, <1>2, <2>1 DEF ReadOnce
  <2> QED BY <1>1, <1>2, <2>1, <2>2, UnmovedCollect
<1>4. CASE CannotOpen
  BY <1>4 DEF CannotOpen, CollectInv, Collecting
<1>5. CASE NextObject
  <2> DEFINE f == link.nodes[index].file
  <2>1. f \in Files /\ link.kind[f] = "object" /\ index \in DOMAIN link.nodes
    <3>1. AtFile("object")
      BY <1>5 DEF NextObject
    <3>2. AtNode /\ link.nodes[index].end = 0 /\ link.kind[f] = "object"
      BY <3>1 DEF AtFile
    <3>3. index \in DOMAIN link.nodes
      BY <3>2, LinkFacts, LenProperties DEF AtNode, Inv, Typed
    <3> QED BY <3>2, <3>3, LinkFacts
  <2>2. CASE f \in seen
    <3>1. Coming' = {} /\ phase' # "handle" /\ seen' = seen
      BY <1>1, <1>5, <2>2 DEF NextObject, Coming
    <3>2. ReadOnce'
      BY <1>1, <1>2, <3>1 DEF ReadOnce
    <3> QED BY <1>1, <1>2, <3>1, <3>2, UnmovedCollect
  <2>3. CASE f \notin seen
    <3>1. phase' = "handle" /\ todo' = link.atoms[f] /\ seen' = seen \cup {f}
      BY <1>5, <2>3 DEF NextObject
    <3>2. f \notin Handled /\ f \in Handled'
      BY <1>2, <2>1, <2>3, <3>1 DEF ReadOnce, Handled
    <3>3. ReadOnce'
      BY <1>1, <1>2, <2>1, <3>1 DEF ReadOnce
    <3> QED BY <1>1, <2>1, <3>1, <3>2, <3>3, BeginCollect
  <2> QED BY <2>2, <2>3
<1>6. CASE NextLibrary
  <2> DEFINE f == link.nodes[index].file
  <2>1. f \in Files /\ link.kind[f] # "object"
    BY <1>6, LinkFacts DEF NextLibrary, AtFile
  <2>2. /\ seen' = seen /\ todo' = link.atoms[f]
        /\ phase' = IF link.kind[f] = "shared" THEN "handle" ELSE "undefs"
    BY <1>6 DEF NextLibrary
  <2>3. ReadOnce'
    BY <1>1, <1>2, <2>2 DEF ReadOnce
  <2>4. CASE phase' = "handle"
    BY <1>1, <2>1, <2>2, <2>3, <2>4, BeginCollect
  <2>5. CASE phase' = "undefs"
    <3>1. Coming' = {}
      BY <2>5 DEF Coming
    <3> QED BY <1>1, <1>2, <2>2, <2>3, <2>5, <3>1, UnmovedCollect
  <2> QED BY <2>2, <2>4, <2>5
<1> QED BY <1>3, <1>4, <1>5, <1>6

\* What a library has for a name is not an object that was read.
LEMMA CallbackCollect ==
  ASSUME Inv, CollectInv, phase \in {"undefs", "tents"}, link' = link, symtab' = symtab,
         atoms' = atoms, seen' = seen, NEW n \in Names, NEW dataOnly, Callback(n, dataOnly)
  PROVE  CollectInv'
<1>1. Collecting /\ phase # "handle" /\ Coming = {} /\ ReadOnce /\ link \in Links
  BY CollectParts DEF Collecting, Coming
<1>2. lib \in Files /\ link.kind[lib] \in {"archive", "shared"}
  <2>1. lib \in Libraries
    BY <1>1 DEF Inv, Typed, Calls
  <2> QED BY <1>1, <2>1, LibraryAssumption DEF Libraries
<1>3. ASSUME taken \subseteq taken', phase' = phase, ReadOnce' PROVE CollectInv'
  <2>1. Coming' = {}
    BY <1>1, <1>3 DEF Coming
  <2> QED BY <1>1, <1>3, <2>1, UnmovedCollect
<1>4. CASE link.kind[lib] = "archive"
  <2> DEFINE m == Find(lib, n, dataOnly)
  <2>1. CASE m = None
    <3>1. phase' = phase /\ taken' = taken
      BY <1>4, <2>1 DEF Callback
    <3> QED BY <1>1, <1>3, <3>1 DEF ReadOnce
  <2>2. CASE m # None
    <3>1. m = link.toc[lib][n] /\ m \notin taken
      BY <2>2 DEF Find
    <3>2. m \in Files
      BY <1>1, <1>2, <1>4, <2>2, <3>1, LibraryAssumption
    <3>3. link.kind[m] = "object" /\ \A i \in DOMAIN link.nodes : link.nodes[i].file # m
      BY <1>1, <1>2, <1>4, <2>2, <3>1, FileAssumption
    <3>4. taken' = taken \cup {m}
      BY <1>4, <2>2 DEF Callback
    <3>5. m \notin Handled /\ m \in Handled' /\ ReadOnce'
      BY <1>1, <3>1, <3>3, <3>4 DEF ReadOnce, Handled
    <3> HIDE DEF m
    <3>6. CASE m \in link.unreadable
      <4>1. phase' = phase
        BY <1>4, <2>2, <3>6 DEF Callback, m
      <4> QED BY <1>3, <3>4, <3>5, <4>1
    <3>7. CASE m \notin link.unreadable
      <4>1. phase' = "handle" /\ todo' = link.atoms[m]
        BY <1>4, <2>2, <3>7 DEF Callback, m
      <4> QED BY <1>1, <3>2, <3>4, <3>5, <4>1, BeginCollect
    <3> QED BY <3>6, <3>7
  <2> QED BY <2>1, <2>2
<1>5. CASE link.kind[lib] = "shared"
  <2> DEFINE s == link.exports[lib][n]
  <2>1. taken' = taken /\ ReadOnce'
    BY <1>1, <1>5 DEF Callback, ReadOnce
  <2>2. CASE s = None
    <3>1. phase' = phase
      BY <1>5, <2>2 DEF Callback
    <3> QED BY <1>3, <2>1, <3>1
  <2>3. CASE s # None
    <3>1. phase' = "handle" /\ todo' = <<s>>
      BY <1>5, <2>3 DEF Callback
    <3>2. s \in D /\ ~Is(s, "regular")
      BY <1>1, <1>2, <1>5, <2>3, LibraryAssumption DEF D, Is
    <3> HIDE DEF s
    <3> QED BY <1>1, <2>1, <3>1, <3>2, ExportCollect
  <2> QED BY <2>2, <2>3
<1> QED BY <1>2, <1>4, <1>5

\* Searching a library, and the end of a file.
LEMMA SearchCollect ==
  ASSUME Inv, CollectInv,
         NextUndefine \/ UndefinesDone \/ NextTentative \/ SearchAgain \/ LibraryDone \/ FileDone
  PROVE  CollectInv'
<1> USE DEF reading, searching, tables, stripping
<1>1. Collecting /\ link' = link /\ symtab' = symtab /\ atoms' = atoms /\ seen' = seen
  BY DEF NextUndefine, UndefinesDone, NextTentative, SearchAgain, LibraryDone, FileDone, Collecting
<1>2. ReadOnce
  BY <1>1, CollectParts
<1>3. ASSUME Coming = {}, phase' # "handle", taken' = taken PROVE CollectInv'
  <2>1. Coming' = {} /\ ReadOnce'
    BY <1>1, <1>2, <1>3 DEF Coming, ReadOnce
  <2> QED BY <1>1, <1>3, <2>1, UnmovedCollect
<1>4. CASE UndefinesDone \/ SearchAgain \/ LibraryDone
  BY <1>3, <1>4 DEF UndefinesDone, SearchAgain, LibraryDone, Coming
<1>5. CASE FileDone
  <2>1. Coming = {} /\ taken' = taken
    BY <1>5 DEF FileDone, Coming, ToSet
  <2>2. phase' # "handle"
    BY <1>5 DEF FileDone, Inv, Typed
  <2> QED BY <1>3, <2>1, <2>2
<1>6. CASE NextUndefine
  <2> DEFINE n == undefines[scan + 1]
  <2>1. phase = "undefs" /\ Coming = {}
    BY <1>6 DEF NextUndefine, Coming
  <2>2. CASE n # None /\ IsUndefinedName(n)
    <3>1. Callback(n, FALSE)
      BY <1>6, <2>2 DEF NextUndefine
    <3>2. undefines \in Seq(Names \cup {None}) /\ scan \in Nat /\ scan < Len(undefines)
      BY <1>6 DEF NextUndefine, Inv, Typed
    <3>3. scan + 1 \in 1 .. Len(undefines)
      BY <3>2, LenProperties
    <3>4. n \in Names
      BY <2>2, <3>2, <3>3, ElementOfSeq
    <3> QED BY <1>1, <2>1, <3>1, <3>4, CallbackCollect
  <2>3. CASE ~(n # None /\ IsUndefinedName(n))
    BY <1>3, <1>6, <2>1, <2>3 DEF NextUndefine
  <2> QED BY <2>2, <2>3
<1>7. CASE NextTentative
  <2>1. phase = "tents" /\ Coming = {}
    BY <1>7 DEF NextTentative, Coming
  <2>2. PICK n \in tents : IF IsTentative(symtab, n)
                           THEN Callback(n, TRUE) /\ back' = "tents"
                           ELSE UNCHANGED <<phase, todo, back, taken>>
    BY <1>7 DEF NextTentative
  <2>3. n \in Names
    BY DEF Inv, Typed
  <2>4. CASE IsTentative(symtab, n)
    BY <1>1, <2>1, <2>2, <2>3, <2>4, CallbackCollect
  <2>5. CASE ~IsTentative(symtab, n)
    BY <1>3, <2>1, <2>2, <2>5
  <2> QED BY <2>4, <2>5
<1> QED BY <1>4, <1>5, <1>6, <1>7

\* The atoms of a file.
LEMMA AddedCollect ==
  ASSUME Inv, CollectInv, DoDefinedAtom \/ DoOtherAtom
  PROVE  CollectInv'
<1> USE DEF searching
<1>1. PICK a \in D : /\ Handling(a) /\ Added(a, Tail(todo))
                     /\ Is(a, "regular") => link.atom[a].group = "no"
                     /\ UNCHANGED <<link, seen, taken>>
  BY DEF DoDefinedAtom, DoOtherAtom, D, Is
<1>2. phase = "handle" /\ todo # <<>> /\ a = Head(todo) /\ Collecting
  BY <1>1 DEF Handling, Collecting
<1>3. CASE AddFails(symtab, a)
  BY <1>1, <1>3 DEF Added, CollectInv, Collecting
<1>4. CASE ~AddFails(symtab, a)
  <2>1. phase' = "handle" /\ symtab' = Add(symtab, a) /\ atoms' = atoms \cup {a} /\ todo' = Tail(todo)
    BY <1>1, <1>2, <1>4 DEF Added
  <2>2. /\ link \in Links /\ IsTable(symtab) /\ MadeOf(symtab, atoms)
        /\ \A n \in Names : symtab.names[n] # None => symtab.names[n] \in atoms
    BY <1>2, CollectParts
  <2>3. PICK u : u = symtab'
    OBVIOUS
  <2>4. /\ MadeOf(u, atoms \cup {a}) /\ DOMAIN symtab.replaced \subseteq DOMAIN u.replaced
        /\ \A c \in DOMAIN u.replaced :
             c \in DOMAIN symtab.replaced \/ c = a \/ \E n \in Names : c = symtab.names[n] /\ Nameable(c)
    BY <1>1, <2>1, <2>2, <2>3, AddMade
  <2>5. \A c : Nameable(c) => ~IsParent(c)
    BY <2>2, GroupFacts DEF Nameable, IsParent
  <2>6. ~IsParent(a)
    BY <1>1, <2>2, GroupFacts DEF IsParent
  <2>7. {a} \in SUBSET D /\ a \in {a} /\ \A b \in {a} : b = a \/ ~Is(b, "regular")
    OBVIOUS
  <2>8. \A c \in DOMAIN u.replaced : c \in DOMAIN symtab.replaced \/ ~IsParent(c) \/ c = a
    BY <2>4, <2>5
  <2> QED BY <1>1, <1>2, <2>1, <2>3, <2>4, <2>6, <2>7, <2>8, TakeCollect
<1> QED BY <1>3, <1>4

LEMMA GroupCollect ==
  ASSUME Inv, CollectInv, DoGroup
  PROVE  CollectInv'
<1> USE DEF searching
<1>1. PICK a \in D :
        /\ Handling(a) /\ Is(a, "regular") /\ link.atom[a].group # "no"
        /\ atoms' = atoms \cup {a}
        /\ IF Name(a) \notin DOMAIN symtab.groups
           THEN /\ symtab' = [symtab EXCEPT !.groups = Put(@, Name(a), a)]
                /\ todo' = Children(a) \o Tail(todo)
                /\ UNCHANGED phase
           ELSE LET g == symtab.groups[Name(a)] IN
                /\ symtab' = [symtab EXCEPT !.replaced = Put(@, a, g)]
                /\ todo' = Tail(todo)
                /\ phase' = IF link.allowDuplicates \/ link.atom[g].group = link.atom[a].group
                            THEN phase ELSE "fatal"
  BY DEF DoGroup, D
<1>u. UNCHANGED <<link, seen, taken>>
  BY DEF DoGroup
<1>2. phase = "handle" /\ todo # <<>> /\ a = Head(todo) /\ Collecting /\ IsParent(a)
  BY <1>1 DEF Handling, Collecting, IsParent
<1>3. CASE Name(a) \notin DOMAIN symtab.groups
  BY <1>1, <1>2, <1>3, <1>u, ChosenCollect
<1>4. CASE Name(a) \in DOMAIN symtab.groups
  <2> DEFINE g == symtab.groups[Name(a)]
  <2>1. symtab' = [symtab EXCEPT !.replaced = Put(@, a, g)] /\ todo' = Tail(todo)
        /\ phase' \in {"handle", "fatal"}
    BY <1>1, <1>2, <1>4
  <2>2. MadeOf(symtab, atoms) /\ IsTable(symtab) /\ g \in atoms /\ IsParent(g)
    BY <1>2, <1>4, CollectParts DEF MadeOf
  <2>3. /\ symtab'.replaced = Put(symtab.replaced, a, g) /\ symtab'.contents = symtab.contents
        /\ symtab'.groups = symtab.groups
    BY <2>1, <2>2 DEF IsTable
  <2> HIDE DEF g
  <2>4. /\ DOMAIN symtab'.replaced = DOMAIN symtab.replaced \cup {a}
        /\ \A c \in DOMAIN symtab'.replaced :
             symtab'.replaced[c] = g \/ (c \in DOMAIN symtab.replaced /\ symtab'.replaced[c] = symtab.replaced[c])
    BY <2>3 DEF Put
  <2>m. Mergeable(g)
    BY <2>2 DEF Mergeable
  <2>5. MadeOf(symtab', atoms \cup {a})
    BY <2>2, <2>3, <2>4, <2>m DEF MadeOf
  <2>6. CASE phase' = "handle"
    <3>1. {a} \in SUBSET D /\ a \in {a} /\ \A b \in {a} : b = a \/ ~Is(b, "regular")
      OBVIOUS
    <3>2. atoms' = atoms \cup {a} /\ link' = link
      BY <1>1, <1>u
    <3> QED BY <1>2, <1>u, <2>1, <2>4, <2>5, <2>6, <3>1, <3>2, TakeCollect
  <2>7. CASE phase' = "fatal"
    BY <2>7 DEF CollectInv, Collecting
  <2> QED BY <2>1, <2>6, <2>7
<1> QED BY <1>3, <1>4

LEMMA UndefinedCollect ==
  ASSUME Inv, CollectInv, DoUndefinedAtom
  PROVE  CollectInv'
<1> USE DEF searching
<1>1. PICK a \in D :
        /\ Handling(a) /\ Is(a, "undefined")
        /\ LET b == link.atom[a].fallback
               t1 == Add(symtab, a)
               t2 == Add(t1, b)
           IN  IF b # None /\ ~IsDefinedName(t1, Name(a))
               THEN /\ symtab' = [t2 EXCEPT !.replaced = Put(@, a, b)]
                    /\ atoms' = atoms \cup {a, b}
               ELSE /\ symtab' = t1
                    /\ atoms' = atoms \cup {a}
        /\ todo' = Tail(todo)
  BY DEF DoUndefinedAtom, D
<1>u. UNCHANGED <<link, seen, taken>> /\ phase' = phase
  BY DEF DoUndefinedAtom
<1>2. phase = "handle" /\ todo # <<>> /\ a = Head(todo) /\ Collecting /\ ~Is(a, "regular")
  BY <1>1 DEF Handling, Collecting, Is
<1>3. /\ link \in Links /\ IsTable(symtab) /\ MadeOf(symtab, atoms)
      /\ \A n \in Names : symtab.names[n] # None => symtab.names[n] \in atoms
  BY <1>2, CollectParts
<1>4. ~IsParent(a) /\ \A c : Nameable(c) => ~IsParent(c)
  BY <1>2, <1>3, GroupFacts DEF Nameable, IsParent
<1>5. PICK b : b = link.atom[a].fallback
  OBVIOUS
<1>6. PICK u : u = symtab'
  OBVIOUS
<1>7. \/ u = Add(symtab, a) /\ atoms' = atoms \cup {a}
      \/ b # None /\ u = FallBack(symtab, a, b) /\ atoms' = atoms \cup {a, b}
  BY <1>1, <1>5, <1>6 DEF FallBack
<1>8. CASE u = Add(symtab, a) /\ atoms' = atoms \cup {a}
  <2>1. /\ MadeOf(u, atoms \cup {a}) /\ DOMAIN symtab.replaced \subseteq DOMAIN u.replaced
        /\ \A c \in DOMAIN u.replaced :
             c \in DOMAIN symtab.replaced \/ c = a \/ \E n \in Names : c = symtab.names[n] /\ Nameable(c)
    BY <1>2, <1>3, <1>8, AddMade
  <2>2. {a} \in SUBSET D /\ a \in {a} /\ \A c \in {a} : c = a \/ ~Is(c, "regular")
    OBVIOUS
  <2>3. \A c \in DOMAIN u.replaced : c \in DOMAIN symtab.replaced \/ ~IsParent(c) \/ c = a
    BY <1>4, <2>1
  <2>4. todo' = Tail(todo) /\ phase' = "handle"
    BY <1>1, <1>2, <1>u
  <2> QED BY <1>2, <1>4, <1>6, <1>8, <1>u, <2>1, <2>2, <2>3, <2>4, TakeCollect
<1>9. CASE b # None /\ u = FallBack(symtab, a, b) /\ atoms' = atoms \cup {a, b}
  <2>1. b \in D /\ Is(b, "undefined") /\ ~Is(b, "regular")
    BY <1>3, <1>5, <1>9, AtomFacts DEF Is
  <2>2. /\ MadeOf(u, atoms \cup {a, b}) /\ DOMAIN symtab.replaced \subseteq DOMAIN u.replaced
        /\ \A c \in DOMAIN u.replaced : c \in DOMAIN symtab.replaced \/ ~IsParent(c)
    BY <1>1, <1>3, <1>9, <2>1, FallBackMade
  <2>3. {a, b} \in SUBSET D
    BY <2>1
  <2> QED BY <1>1, <1>2, <1>4, <1>6, <1>9, <1>u, <2>1, <2>2, <2>3, TakeCollect
<1> QED BY <1>7, <1>8, <1>9

\* What comes after the files is not about reading.
LEMMA NextCollect ==
  ASSUME Inv, CollectInv, [Next]_vars
  PROVE  CollectInv'
<1> USE DEF reading, searching, tables, stripping
<1>1. CASE UpdateReferences \/ MarkLive \/ DeadStripped \/ UndefinesLeft \/ Resolved
  BY <1>1 DEF UpdateReferences, MarkLive, DeadStripped, UndefinesLeft, Resolved, CollectInv, Collecting
<1>2. CASE UNCHANGED vars
  <2>1. CASE Collecting
    <3>1. Coming' = Coming /\ ReadOnce
      BY <1>2, <2>1, CollectParts DEF vars, Coming
    <3>2. ReadOnce'
      BY <1>2, <3>1 DEF vars, ReadOnce
    <3> QED BY <1>2, <2>1, <3>1, <3>2, UnmovedCollect DEF vars
  <2>2. CASE ~Collecting
    BY <1>2, <2>2 DEF vars, CollectInv, Collecting
  <2> QED BY <2>1, <2>2
<1> QED BY <1>1, <1>2, NodeCollect, SearchCollect, AddedCollect, GroupCollect, UndefinedCollect
        DEF Next, Terminated

-----------------------------------------------------------------------------
(* What the files were read for: the result.                               *)

\* What a reference leads to: an atom of the file's list, or a child of the group.
LEMMA ReferenceFacts ==
  ASSUME link \in Links, NEW a \in D, NEW r \in link.atom[a].refs
  PROVE  /\ r[2] \in D
         /\ \/ r[2] \in Own(a)
            \/ \E p \in D : ChildOf(r[2], p) /\ (a = p \/ ChildOf(a, p))
<1>1. \/ r[2] \in Own(a)
      \/ \E p \in D : ChildOf(r[2], p) /\ (a = p \/ ChildOf(a, p))
  BY ReferenceAssumption DEF D, Own, ChildOf
<1>2. link.atom[a].file \in Files
  BY AtomFacts DEF AtomRecords
<1>3. Own(a) \subseteq D
  BY <1>2, OwnFacts DEF Own
<1> QED BY <1>1, <1>3, GroupFacts

\* Where a reference leads.
LEMMA TargetFacts ==
  ASSUME Inv, NEW K \in SUBSET D, DOMAIN symtab.replaced \subseteq K,
         \A c \in DOMAIN symtab.replaced : symtab.replaced[c] \in K,
         NEW r, r[1] # "associate", r[2] \in K
  PROVE  /\ NewTarget(r)[1] = r[1] /\ NewTarget(r)[2] = Replacement(symtab, r[2])
         /\ NewTarget(r)[2] \in K
         /\ ~Gone(r[2]) => NewTarget(r)[2] = r[2]
         /\ \/ NewTarget(r)[2] = r[2]
            \/ \E c \in DOMAIN symtab.replaced : NewTarget(r)[2] = symtab.replaced[c]
<1>1. IsFiniteSet(DOMAIN symtab.replaced)
  BY LinkFacts, FS_Subset
<1>2. NewTarget(r) = <<r[1], Replacement(symtab, r[2])>>
  BY DEF NewTarget
<1>3. /\ Replacement(symtab, r[2]) \in K
      /\ r[2] \notin DOMAIN symtab.replaced => Replacement(symtab, r[2]) = r[2]
      /\ \/ Replacement(symtab, r[2]) = r[2]
         \/ \E c \in DOMAIN symtab.replaced : Replacement(symtab, r[2]) = symtab.replaced[c]
  <2>1. PICK x \in K : x = r[2]
    OBVIOUS
  <2>2. /\ Replacement(symtab, x) \in K
        /\ x \notin DOMAIN symtab.replaced => Replacement(symtab, x) = x
        /\ \/ Replacement(symtab, x) = x
           \/ \E c \in DOMAIN symtab.replaced : Replacement(symtab, x) = symtab.replaced[c]
    BY <1>1, ReplacementFacts
  <2> QED BY <2>1, <2>2
<1>4. NewTarget(r)[1] = r[1] /\ NewTarget(r)[2] = Replacement(symtab, r[2])
  BY <1>2
<1> QED BY <1>3, <1>4 DEF Gone, IsCoalescedAway

\* Steps that leave what references lead to alone.
LEMMA SameTargets ==
  ASSUME link' = link, symtab' = symtab
  PROVE  /\ D' = D /\ \A r : NewTarget(r)' = NewTarget(r)
         /\ \A a : (Gone(a)' <=> Gone(a)) /\ (Mergeable(a)' <=> Mergeable(a))
         /\ \A a, def : Is(a, def)' <=> Is(a, def)
         /\ \A c, p : ChildOf(c, p)' <=> ChildOf(c, p)
BY DEF D, NewTarget, Replacement, IsCoalescedAway, Gone, Mergeable, IsParent, Name, Is, ChildOf

\* References have led where they do since they were updated.
LEMMA RedirectedKept ==
  ASSUME Redirected, link' = link, symtab' = symtab, refs' = refs, dead' = dead, atoms' \subseteq atoms
  PROVE  Redirected'
<1>1. KeptDefined' \subseteq KeptDefined
  BY DEF KeptDefined, Is
<1> QED BY <1>1, SameTargets DEF Redirected

LEMMA UpdateResult ==
  ASSUME Inv, CollectInv, ResultInv, UpdateReferences
  PROVE  ResultInv'
<1> USE DEF reading, searching, tables
<1>1. /\ phase = "refs" /\ Collecting /\ link' = link /\ symtab' = symtab /\ atoms' = atoms /\ live' = live
      /\ phase' \in {"hang", "mark", "check"} /\ Coming = {} /\ Known = atoms
  BY DEF UpdateReferences, Collecting, Coming, Known
<1>2. link \in Links /\ atoms \subseteq D /\ MadeOf(symtab, atoms) /\ Whole
  BY <1>1, CollectParts
<1>3. CASE phase' = "hang"
  BY <1>3 DEF ResultInv, Collecting
<1>4. CASE phase' # "hang"
  <2>1. /\ refs' = [a \in KeptDefined |-> {NewTarget(r) : r \in link.atom[a].refs}]
        /\ dead' = {r[2] : r \in {r \in UNION {link.atom[a].refs : a \in KeptDefined \cap DOMAIN symtab.replaced} :
                                      r[1] = "associate"}}
        /\ \A a \in KeptDefined : \A r \in link.atom[a].refs :
             r[1] # "associate" => ~ReplacementLoops(symtab, r[2])
    <3> DEFINE of == [a \in KeptDefined |-> link.atom[a].refs]
    <3>1. /\ refs' = [a \in KeptDefined |-> {NewTarget(r) : r \in of[a]}]
          /\ dead' = {r[2] : r \in {r \in UNION {of[a] : a \in KeptDefined \cap DOMAIN symtab.replaced} :
                                      r[1] = "associate"}}
          /\ ~\E a \in KeptDefined : \E r \in of[a] : r[1] # "associate" /\ ReplacementLoops(symtab, r[2])
      BY <1>4 DEF UpdateReferences
    <3>2. \A a \in KeptDefined : of[a] = link.atom[a].refs
      OBVIOUS
    <3>3. refs' = [a \in KeptDefined |-> {NewTarget(r) : r \in link.atom[a].refs}]
      BY <3>1, <3>2
    <3>4. {of[a] : a \in KeptDefined \cap DOMAIN symtab.replaced}
            = {link.atom[a].refs : a \in KeptDefined \cap DOMAIN symtab.replaced}
      BY <3>2
    <3> QED BY <3>1, <3>2, <3>3, <3>4
  <2>2. KeptDefined' = KeptDefined /\ KeptDefined = {a \in atoms : Is(a, "regular")}
    BY <1>1 DEF KeptDefined, Is
  <2>3. dead' = {t \in D : \E b \in D : /\ Is(b, "regular") /\ Gone(b)
                                        /\ <<"associate", t>> \in link.atom[b].refs}
    <3>1. ASSUME NEW t \in dead'
          PROVE  t \in D /\ \E b \in D : Is(b, "regular") /\ Gone(b) /\ <<"associate", t>> \in link.atom[b].refs
      <4> DEFINE K == KeptDefined \cap DOMAIN symtab.replaced
                 of(a) == link.atom[a].refs
      <4>0. dead' = {r[2] : r \in {r \in UNION {of(a) : a \in K} : r[1] = "associate"}}
        BY <2>1
      <4> HIDE DEF K, of
      <4>p. PICK r \in UNION {of(a) : a \in K} : r[1] = "associate" /\ t = r[2]
        BY <3>1, <4>0
      <4>q. PICK b \in K : r \in of(b)
        BY <4>p
      <4>1. b \in KeptDefined \cap DOMAIN symtab.replaced /\ r \in link.atom[b].refs
            /\ r[1] = "associate" /\ t = r[2]
        BY <4>p, <4>q DEF K, of
      <4>2. b \in D /\ Is(b, "regular") /\ Gone(b)
        BY <1>2, <2>2, <4>1 DEF Gone, IsCoalescedAway
      <4>3. r \in RefKinds \X Atoms
        BY <1>2, <4>1, <4>2, AtomFacts DEF AtomRecords
      <4>4. r = <<"associate", t>>
        BY <4>1, <4>3
      <4> QED BY <1>2, <4>1, <4>2, <4>4, ReferenceFacts
    <3>2. ASSUME NEW t, NEW b \in D, Is(b, "regular"), Gone(b), <<"associate", t>> \in link.atom[b].refs
          PROVE  t \in dead'
      <4>1. b \in KeptDefined \cap DOMAIN symtab.replaced
        BY <1>2, <2>2, <3>2 DEF Gone, IsCoalescedAway, MadeOf
      <4>2. <<"associate", t>>[1] = "associate" /\ <<"associate", t>>[2] = t
        OBVIOUS
      <4>3. <<"associate", t>> \in UNION {link.atom[a].refs : a \in KeptDefined \cap DOMAIN symtab.replaced}
        BY <3>2, <4>1
      <4> QED BY <2>1, <4>2, <4>3
    <3> QED BY <3>1, <3>2
  <2>4. Redirected'
    <3>1. DOMAIN refs' = KeptDefined /\ \A a \in KeptDefined : refs'[a] = {NewTarget(r) : r \in link.atom[a].refs}
      BY <2>1
    <3>2. /\ DOMAIN symtab.replaced \subseteq D
          /\ \A c \in DOMAIN symtab.replaced : symtab.replaced[c] \in D /\ Mergeable(symtab.replaced[c])
      BY <1>2 DEF MadeOf
    <3> QED BY <1>1, <1>2, <2>2, <2>3, <3>1, <3>2, SameTargets DEF Redirected
  <2>5. ASSUME NEW a \in KeptDefined, ~Gone(a), NEW r \in link.atom[a].refs, r[1] # "associate"
        PROVE  NewTarget(r)[2] \in atoms /\ ~Gone(NewTarget(r)[2])
    <3>1. a \in atoms /\ a \in D /\ Is(a, "regular")
      BY <1>2, <2>2
    <3>2. r[2] \in Own(a) \/ \E p \in D : ChildOf(r[2], p) /\ (a = p \/ ChildOf(a, p))
      BY <1>2, <3>1, ReferenceFacts
    <3>3. ASSUME NEW p \in D, ChildOf(r[2], p), a = p \/ ChildOf(a, p) PROVE r[2] \in atoms
      <4>1. p \in atoms /\ ~Gone(p) /\ IsParent(p) /\ r[2] \in D
        BY <1>1, <1>2, <2>5, <3>1, <3>3, GroupFacts DEF Whole
      <4> QED BY <1>1, <1>2, <3>3, <4>1 DEF Whole
    <3>4. r[2] \in atoms
      BY <1>1, <1>2, <3>1, <3>2, <3>3 DEF Whole
    <3>5. NewTarget(r)[2] = Replacement(symtab, r[2]) /\ NewTarget(r)[2] \in atoms
      BY <1>2, <2>5, <3>4, TargetFacts DEF MadeOf
    <3> QED BY <2>1, <2>5, <3>5 DEF ReplacementLoops, Gone
  <2>6. Together'
    <3>1. ASSUME NEW a \in KeptDefined, ~Gone(a), NEW r \in refs'[a], r[1] # "associate"
          PROVE  r[2] \in atoms /\ ~Gone(r[2])
      <4>1. PICK r0 \in link.atom[a].refs : r = NewTarget(r0)
        BY <2>1, <3>1
      <4>2. r0[1] # "associate"
        BY <3>1, <4>1 DEF NewTarget
      <4> QED BY <2>5, <3>1, <4>1, <4>2
    <3>2. \A c \in atoms, p \in D : ChildOf(c, p) => ~Gone(p) /\ p \in atoms
      BY <1>1, <1>2 DEF Whole
    <3> QED BY <1>1, <2>2, <3>1, <3>2, SameTargets DEF Together
  <2>7. Marked'
    BY <1>1 DEF ResultInv, Marked
  <2> QED BY <1>1, <1>2, <2>4, <2>6, <2>7, SameTargets DEF ResultInv, Collecting
<1> QED BY <1>3, <1>4

LEMMA MarkResult ==
  ASSUME Inv, ResultInv, MarkLive \/ DeadStripped
  PROVE  ResultInv'
<1> USE DEF reading, searching, tables, stripping
<1>1. /\ phase = "mark" /\ link' = link /\ symtab' = symtab /\ refs' = refs /\ dead' = dead
      /\ atoms \subseteq D /\ Redirected /\ Together /\ Marked
  BY DEF MarkLive, DeadStripped, ResultInv
<1>2. CASE MarkLive
  <2>1. PICK a \in pending :
          /\ live' = live \cup {a}
          /\ pending' = (pending \ {a}) \cup
                          (IF a \in KeptDefined
                           THEN ({r[2] : r \in refs[a]} \cup Referrers(a)) \ live'
                           ELSE {})
    BY <1>2 DEF MarkLive
  <2>2. phase' = "mark" /\ atoms' = atoms
    BY <1>1, <1>2 DEF MarkLive
  <2>3. KeptDefined' = KeptDefined /\ \A b : Referrers(b)' = Referrers(b)
    BY <1>1, <2>2 DEF KeptDefined, Referrers, Is
  <2>4. ASSUME NEW b \in live' \cap KeptDefined, NEW c \in {r[2] : r \in refs[b]} \cup Referrers(b)
        PROVE  c \in live' \cup pending'
    <3> DEFINE T == {r[2] : r \in refs[b]} \cup Referrers(b)
    <3>1. CASE b = a
      BY <2>1, <2>4, <3>1
    <3>2. CASE b # a
      <4>1. b \in live \cap KeptDefined
        BY <2>1, <3>2
      <4>2. T \subseteq live \cup pending
        BY <1>1, <4>1 DEF Marked
      <4> HIDE DEF T
      <4> QED BY <2>1, <2>4, <4>2 DEF T
    <3> QED BY <3>1, <3>2
  <2>5. Marked'
    BY <1>1, <2>3, <2>4 DEF Marked
  <2>6. Redirected' /\ Together'
    BY <1>1, <2>2, <2>3, RedirectedKept, SameTargets DEF Together
  <2> QED BY <1>1, <2>2, <2>5, <2>6, SameTargets DEF ResultInv, Collecting
<1>3. CASE DeadStripped
  <2>1. pending = {} /\ atoms' = atoms \cap live /\ phase' = "check" /\ live' = live
    BY <1>3 DEF DeadStripped
  <2>2. KeptDefined' = KeptDefined \cap live
    BY <1>1, <2>1 DEF KeptDefined, Is
  <2>3. ASSUME NEW a \in KeptDefined \cap live, ~Gone(a), NEW r \in refs[a], r[1] # "associate"
        PROVE  r[2] \in atoms' /\ ~Gone(r[2])
    <3>1. r[2] \in atoms /\ ~Gone(r[2])
      BY <1>1, <2>3 DEF Together
    <3>2. r[2] \in live
      BY <1>1, <2>1, <2>3 DEF Marked
    <3> QED BY <2>1, <3>1, <3>2
  <2>4. ASSUME NEW c \in atoms', NEW p \in D, ChildOf(c, p)
        PROVE  ~Gone(p) /\ (~Gone(c) => p \in atoms')
    <3>1. c \in atoms /\ c \in live /\ c \in D /\ ~Gone(p) /\ (~Gone(c) => p \in atoms)
      BY <1>1, <2>1, <2>4 DEF Together
    <3>2. ASSUME ~Gone(c) PROVE p \in live
      <4>1. Is(p, "regular") /\ Is(c, "regular") /\ p \in KeptDefined /\ c \in KeptDefined
        BY <2>4, <3>1, <3>2, GroupFacts, LinkFacts DEF KeptDefined
      <4> DEFINE r == <<"groupChild", c>>
      <4>2. r \in link.atom[p].refs /\ r[1] = "groupChild" /\ r[2] = c
        BY <2>4 DEF ChildOf
      <4>3. NewTarget(r)[1] = "groupChild" /\ NewTarget(r)[2] = c
        <5> HIDE DEF r
        <5> QED BY <1>1, <3>1, <3>2, <4>2, TargetFacts DEF Redirected
      <4>4. NewTarget(r) \in refs[p]
        BY <1>1, <4>1, <4>2 DEF Redirected
      <4>5. p \in Referrers(c)
        BY <4>1, <4>3, <4>4 DEF Referrers
      <4> QED BY <1>1, <2>1, <3>1, <4>1, <4>5 DEF Marked
    <3> QED BY <2>1, <3>1, <3>2
  <2>5. Together'
    BY <1>1, <2>2, <2>3, <2>4, SameTargets DEF Together
  <2>6. Redirected'
    BY <1>1, <2>1, RedirectedKept
  <2> QED BY <1>1, <2>1, <2>5, <2>6, SameTargets DEF ResultInv, Collecting
<1> QED BY <1>2, <1>3

\* What was declared dead is referred to by what goes with it only.
LEMMA DeadFacts ==
  ASSUME link \in Links, Redirected, NEW t \in dead
  PROVE  /\ t \in D /\ ~Mergeable(t) /\ ~IsParent(t)
         /\ \A a \in D : \A r \in link.atom[a].refs :
              r[1] # "associate" /\ r[2] = t => (Is(a, "regular") => Gone(a)) \/ a \in dead
<1>1. PICK b \in D : t \in D /\ Is(b, "regular") /\ Gone(b) /\ <<"associate", t>> \in link.atom[b].refs
  BY DEF Redirected
<1>2. /\ link.atom[t].name = None /\ link.atom[t].merge # "content" /\ link.atom[t].group = "no"
      /\ \A a \in D : \A r \in link.atom[a].refs :
           r[1] # "associate" /\ r[2] = t => a = b \/ <<"associate", a>> \in link.atom[b].refs
  BY <1>1, AssociateAssumption DEF D
<1>3. \A a \in D : <<"associate", a>> \in link.atom[b].refs => a \in dead
  BY <1>1 DEF Redirected
<1> QED BY <1>1, <1>2, <1>3 DEF Mergeable, IsParent, Name

LEMMA ResolvedResult ==
  ASSUME Inv, ResultInv, Resolved
  PROVE  ResultInv'
<1> USE DEF reading, searching, stripping
<1>1. /\ phase = "check" /\ link' = link /\ symtab' = symtab /\ refs' = refs /\ dead' = dead
      /\ phase' = "linked" /\ atoms' = {a \in atoms : ~Gone(a) /\ a \notin dead}
      /\ atoms \subseteq D /\ Redirected /\ Together /\ link \in Links
  BY LinkFacts DEF Resolved, ResultInv, Gone
<1>2. KeptDefined' = {a \in KeptDefined : ~Gone(a) /\ a \notin dead}
  BY <1>1 DEF KeptDefined, Is
<1>3. ASSUME NEW a \in KeptDefined, ~Gone(a), a \notin dead, NEW r \in refs[a], r[1] # "associate"
      PROVE  r[2] \in atoms' /\ ~Gone(r[2])
  <2>1. r[2] \in atoms /\ ~Gone(r[2]) /\ a \in D /\ Is(a, "regular") /\ a \in DOMAIN refs
    BY <1>1, <1>3 DEF Together, KeptDefined, Redirected
  <2>2. PICK r0 \in link.atom[a].refs : r = NewTarget(r0)
    BY <1>1, <1>3, <2>1 DEF Redirected
  <2>3. r0[1] # "associate" /\ r0[2] \in D
    BY <1>1, <1>3, <2>1, <2>2, ReferenceFacts DEF NewTarget
  <2>4. r[2] = r0[2] \/ \E c \in DOMAIN symtab.replaced : r[2] = symtab.replaced[c]
    BY <1>1, <2>2, <2>3, TargetFacts DEF Redirected
  <2>5. r[2] \notin dead
    <3> SUFFICES ASSUME r[2] \in dead PROVE FALSE
      OBVIOUS
    <3>1. ~Mergeable(r[2])
      BY <1>1, DeadFacts
    <3>2. r0[2] = r[2]
      BY <1>1, <2>4, <3>1 DEF Redirected
    <3> QED BY <1>1, <1>3, <2>1, <2>2, <2>3, <3>2, DeadFacts
  <2> QED BY <1>1, <2>1, <2>5
<1>4. ASSUME NEW c \in atoms', NEW p \in D, ChildOf(c, p)
      PROVE  ~Gone(p) /\ (~Gone(c) => p \in atoms')
  <2>1. ~Gone(p) /\ (~Gone(c) => p \in atoms) /\ c \in D
    BY <1>1, <1>4 DEF Together
  <2>2. IsParent(p)
    BY <1>1, <1>4, GroupFacts
  <2>3. p \notin dead
    BY <1>1, <2>2, DeadFacts
  <2> QED BY <1>1, <2>1, <2>3
<1>5. Together'
  BY <1>1, <1>2, <1>3, <1>4, SameTargets DEF Together
<1>6. Redirected'
  BY <1>1, RedirectedKept
<1> QED BY <1>1, <1>5, <1>6, SameTargets DEF ResultInv, Collecting

LEMMA NextResult ==
  ASSUME Inv, CollectInv, ResultInv, [Next]_vars
  PROVE  ResultInv'
<1> USE DEF reading, searching, tables, stripping
<1>1. CASE \/ EndGroup \/ CannotOpen \/ NextObject \/ NextLibrary \/ NodesDone
           \/ DoDefinedAtom \/ DoGroup \/ DoUndefinedAtom \/ DoOtherAtom \/ FileDone
           \/ NextUndefine \/ UndefinesDone \/ NextTentative \/ SearchAgain \/ LibraryDone
  <2>1. Collecting /\ live' = live /\ phase' \notin {"mark", "check", "linked"}
    <3>1. CASE EndGroup \/ CannotOpen \/ NextObject \/ NextLibrary \/ NodesDone
      BY <3>1 DEF EndGroup, CannotOpen, NextObject, NextLibrary, NodesDone, AtNode, AtFile, Collecting
    <3>2. CASE DoDefinedAtom \/ DoGroup \/ DoUndefinedAtom \/ DoOtherAtom
      BY <3>2 DEF DoDefinedAtom, DoGroup, DoUndefinedAtom, DoOtherAtom, Handling, Added, Collecting
    <3>3. CASE FileDone
      BY <3>3 DEF FileDone, Collecting, Inv, Typed
    <3>4. CASE NextUndefine \/ NextTentative
      BY <3>4 DEF NextUndefine, NextTentative, Callback, Collecting
    <3>5. CASE UndefinesDone \/ SearchAgain \/ LibraryDone
      BY <3>5 DEF UndefinesDone, SearchAgain, LibraryDone, Collecting
    <3> QED BY <1>1, <3>1, <3>2, <3>3, <3>4, <3>5
  <2> QED BY <2>1 DEF ResultInv
<1>2. CASE UndefinesLeft
  BY <1>2 DEF UndefinesLeft, ResultInv, Collecting
<1>3. CASE UNCHANGED vars
  <2>1. /\ phase' = phase /\ link' = link /\ symtab' = symtab /\ refs' = refs /\ dead' = dead
        /\ atoms' = atoms /\ live' = live /\ pending' = pending
    BY <1>3 DEF vars
  <2>2. KeptDefined' = KeptDefined /\ \A b : Referrers(b)' = Referrers(b)
    BY <2>1 DEF KeptDefined, Referrers, Is
  <2>3. Redirected => Redirected'
    BY <2>1, RedirectedKept
  <2>4. (Together => Together') /\ (Marked => Marked')
    BY <2>1, <2>2, SameTargets DEF Together, Marked
  <2> QED BY <2>1, <2>3, <2>4, SameTargets DEF ResultInv, Collecting
<1> QED BY <1>1, <1>2, <1>3, UpdateResult, MarkResult, ResolvedResult DEF Next, Terminated

(* Reading keeps files and groups whole, and what becomes of them keeps    *)
(* them together.                                                          *)
THEOREM ResultInvHolds == Spec => [](Inv /\ CollectInv /\ ResultInv)
<1>1. Init => Inv /\ CollectInv /\ ResultInv
  <2>1. Init => ResultInv
    BY DEF Init, ResultInv
  <2> QED BY <2>1, InitInv, InitCollect
<1>2. Inv /\ CollectInv /\ ResultInv /\ [Next]_vars => (Inv /\ CollectInv /\ ResultInv)'
  BY NextInv, NextCollect, NextResult
<1> QED BY <1>1, <1>2, PTL DEF Spec

(* Whatever was coalesced away, stripped or left behind with its group,    *)
(* nothing in the result refers to it.                                     *)
THEOREM ResultIsClosed == Spec => []ResultClosed
<1>1. ResultInv => ResultClosed
  BY DEF ResultInv, Together, ResultClosed, KeptDefined
<1> QED BY <1>1, ResultInvHolds, PTL

(* A group is in the result as a whole or not at all.                      *)
THEOREM GroupsStayWhole == Spec => []GroupsWhole
<1>1. Inv /\ ResultInv => GroupsWhole
  <2> SUFFICES ASSUME Inv, ResultInv, phase = "linked", NEW p \in D, IsParent(p),
                      NEW c \in ToSet(Children(p))
               PROVE  /\ p \in atoms => c \in atoms \/ Gone(c)
                      /\ c \in atoms => p \in atoms
    BY DEF GroupsWhole, D, IsParent, Gone
  <2>1. atoms \subseteq D /\ Redirected /\ Together /\ (\A a \in atoms : ~Gone(a)) /\ link \in Links
    BY LinkFacts DEF ResultInv
  <2>2. c \in D /\ ChildOf(c, p)
    <3> DEFINE C == {x \in D : ChildOf(x, p)}
    <3>1. IsFiniteSet(C) /\ Children(p) = SetToSeq(C)
      BY LinkFacts, FS_Subset DEF Children, ChildOf, D
    <3> HIDE DEF C
    <3>2. c \in C
      BY <3>1, SetToSeqFacts
    <3> QED BY <3>2 DEF C
  <2>3. ASSUME p \in atoms, ~Gone(c) PROVE c \in atoms
    <3>1. p \in KeptDefined /\ ~Gone(p)
      BY <2>1, <2>3, GroupFacts DEF KeptDefined
    <3> DEFINE r == <<"groupChild", c>>
    <3>2. r \in link.atom[p].refs /\ r[1] = "groupChild" /\ r[2] = c
      BY <2>2 DEF ChildOf
    <3>3. NewTarget(r)[1] = "groupChild" /\ NewTarget(r)[2] = c
      <4> HIDE DEF r
      <4> QED BY <2>1, <2>2, <2>3, <3>2, TargetFacts DEF Redirected
    <3>4. NewTarget(r) \in refs[p]
      BY <2>1, <3>1, <3>2 DEF Redirected
    <3> QED BY <2>1, <3>1, <3>3, <3>4 DEF Together
  <2>4. c \in atoms => p \in atoms
    BY <2>1, <2>2 DEF Together
  <2> QED BY <2>3, <2>4
<1> QED BY <1>1, ResultInvHolds, PTL
=============================================================================
