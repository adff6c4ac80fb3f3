----------------------------- MODULE SwigTypes ------------------------------
(***************************************************************************)
(* The type tables of the SWIG modules in one Python interpreter           *)
(* (swig/ieee_swig.cc, l.400-640 and 8950-9140; the runtime in             *)
(* swig/howto_swig.cc is the same).  Each module declares types, in the    *)
(* order of their names, and for each type the types that can be cast to   *)
(* it.  When a module is imported its types are matched with those of the  *)
(* modules before it, so that all of them use one structure for a name;    *)
(* the casts of a type are in a doubly linked list, whose head moves to    *)
(* what was found last.                                                    *)
(***************************************************************************)
EXTENDS Integers, Sequences, SequencesExt, FiniteSets

CONSTANTS
    Modules,    \* the SWIG modules that a program may import
    NameOrder,  \* all type names, in the order of strcmp
    Declares,   \* the types of a module: a sequence of names in that order
    CastsTo,    \* module, type -> the types cast to it, in the order declared
    Classes,    \* the types for which a module registers a class
    None        \* a null pointer

Place       == [m \in Modules |-> [t \in Range(Declares[m]) |->
                  CHOOSE i \in DOMAIN Declares[m] : Declares[m][i] = t]]
Declared(m) == DOMAIN Place[m]
\* The static cast structures for a type: module, type cast from.
NodesOf     == [t \in Range(NameOrder) |->
    UNION {IF t \in Declared(m) THEN {m} \X Range(CastsTo[m][t]) ELSE {} : m \in Modules}]

Rank == [t \in Range(NameOrder) |-> CHOOSE i \in DOMAIN NameOrder : NameOrder[i] = t]

\* What SWIG generates: sorted arrays, and the casts to a type, itself among them, each once.
ASSUME TypesAssumption ==
    /\ IsFiniteSet(Modules)
    /\ NameOrder \in Seq(Range(NameOrder))
    /\ \A i, j \in DOMAIN NameOrder : NameOrder[i] = NameOrder[j] => i = j
    /\ \A m \in Modules :
           /\ Declares[m] \in Seq(Range(NameOrder))
           /\ \A i, j \in DOMAIN Declares[m] :
                  i < j => Rank[Declares[m][i]] < Rank[Declares[m][j]]
           /\ Classes[m] \subseteq Declared(m)
           /\ \A t \in Declared(m) :
                  /\ CastsTo[m][t] \in Seq(Declared(m)) /\ t \in Range(CastsTo[m][t])
                  /\ \A i, j \in DOMAIN CastsTo[m][t] :
                         CastsTo[m][t][i] = CastsTo[m][t][j] => i = j
    /\ None \notin Modules /\ None \notin Modules \X Range(NameOrder)

VARIABLES
    modules,  \* the circular list of modules, the first one imported at its head
    types,    \* of a module: its types, each the structure used for it
    cast,     \* of a structure in use: the head of its list; next, prev and type of nodes
    klass     \* clientdata of one: the module whose class its objects get

typeVars == <<modules, types, cast, klass>>

TypesInit ==
    /\ modules = <<>>
    /\ types = [m \in Modules |-> <<>>]
    /\ cast = <<>>
    /\ klass = <<>>

(***************************************************************************)
(* SWIG_MangledTypeQueryModule: a binary search in one module after the    *)
(* other, from start to the one before end.  A module's array of types has *)
(* the names that it declares, whosever structures they are.               *)
(***************************************************************************)
\* One turn of the loop: name is looked for between l and r until it is found at a place
\* (0: not yet).  The C code leaves the loop where r would go below 0.
Turn(names, name, s) ==
    LET i == (s.l + s.r) \div 2
    IN  IF s.at # 0 \/ s.l > s.r THEN s
        ELSE IF name = names[i + 1] THEN [s EXCEPT !.at = i + 1]
        ELSE IF Rank[name] > Rank[names[i + 1]] THEN [s EXCEPT !.l = i + 1]
        ELSE [s EXCEPT !.r = i - 1]

\* Every turn leaves fewer names: there are at most as many as names.
Search(names, name, last) ==
    LET turn[k \in 0 .. Len(names)] ==
            IF k = 0 THEN [l |-> 0, r |-> last, at |-> 0] ELSE Turn(names, name, turn[k - 1])
    IN  turn[Len(names)].at

\* Where a module has a name, 0 when it does not.  Mutant: the last place is not asked.
Found_OneShort == [m \in Modules |-> [t \in Range(NameOrder) |->
                      Search(Declares[m], t, Len(Declares[m]) - 2)]]
Found == [m \in Modules |-> [t \in Range(NameOrder) |->
             Search(Declares[m], t, Len(Declares[m]) - 1)]]

\* The first module that has the name gives its structure.
Query(start, name) ==
    LET has   == {i \in DOMAIN start : Found[start[i]][name] # 0}
        first == CHOOSE i \in has : \A j \in has : i <= j
    IN  IF has = {} THEN None ELSE types[start[first]][Found[start[first]][name]]

(***************************************************************************)
(* The list of a type.  SWIG_TypeCheck looks a name up and moves what it   *)
(* finds to the head; SWIG_InitializeModule adds at the head.              *)
(***************************************************************************)
Follow(c, name, n) == IF n = None \/ c.type[n][2] = name THEN n ELSE c.next[n]
Lookup(c, name) ==
    LET links == Cardinality(DOMAIN c.next)
        at[k \in 0 .. links] == IF k = 0 THEN c.head ELSE Follow(c, name, at[k - 1])
    IN  at[links]

ToHead_KeepsPrev(c, n) ==  \* Mutant: the follower keeps its link back.
    [c EXCEPT !.next = [@ EXCEPT ![c.prev[n]] = c.next[n], ![n] = c.head],
              !.prev = [@ EXCEPT ![n] = None, ![c.head] = n],
              !.head = n]
ToHead(c, n) ==
    LET prev == [m \in DOMAIN c.prev |-> IF m = c.next[n] THEN c.prev[n] ELSE c.prev[m]]
    IN  [c EXCEPT !.next = [@ EXCEPT ![c.prev[n]] = c.next[n], ![n] = c.head],
                  !.prev = [prev EXCEPT ![n] = None, ![c.head] = n],
                  !.head = n]

Checked(c, name) ==
    LET n == Lookup(c, name)
    IN  IF n = None \/ n = c.head THEN c ELSE ToHead(c, n)

Insert(c, n) ==
    IF c.head = None THEN [c EXCEPT !.head = n]
    ELSE [c EXCEPT !.prev[c.head] = n, !.next[n] = c.head, !.head = n]

Loaded == Range(modules)
Used   == UNION {Range(types[m]) : m \in Loaded}

\* The structure that a module has for a name: its macro SWIGTYPE_...
TypeOf(m, t) == types[m][Place[m][t]]

\* The modules asked for a type when m is initialised: all others, from the one
\* behind it; m goes behind the head of the list.
Others(m) == IF modules = <<>> THEN <<>> ELSE Append(Tail(modules), Head(modules))

\* One cast of a type that m declares, added to the list c of the structure for it.  If
\* the type cast from was loaded before, the cast is redirected when the structure is m's
\* own, and left out when the list has it.
AddCast(m, own, c, n) ==
    LET ret == Query(Others(m), n[2])
    IN  IF ret # None /\ own THEN Insert([c EXCEPT !.type[n] = ret], n)
        ELSE IF ret # None /\ Lookup(c, n[2]) # None THEN Checked(c, n[2])
        ELSE Insert(c, n)

AddCasts(m, own, c, from) ==
    LET list[k \in 0 .. Len(from)] ==
            IF k = 0 THEN c ELSE AddCast(m, own, list[k - 1], <<m, from[k]>>)
    IN  list[Len(from)]

NoCasts(t) == [head |-> None,
               next |-> [n \in NodesOf[t] |-> None],
               prev |-> [n \in NodesOf[t] |-> None],
               type |-> [n \in NodesOf[t] |-> n]]

InitializeModule(m) ==
    LET loaded == [t \in Declared(m) |-> Query(Others(m), t)]
        used   == [t \in Declared(m) |-> IF loaded[t] = None THEN <<m, t>> ELSE loaded[t]]
        list(s) == AddCasts(m, s[1] = m, IF s[1] = m THEN NoCasts(s[2]) ELSE cast[s],
                            CastsTo[m][s[2]])
    IN  /\ modules' = IF modules = <<>> THEN <<m>>
                      ELSE <<Head(modules), m>> \o Tail(modules)
        /\ types' = [types EXCEPT ![m] = [i \in DOMAIN Declares[m] |-> used[Declares[m][i]]]]
        /\ cast' = [s \in DOMAIN cast \cup Range(used) |->
                       IF s[2] \in DOMAIN used /\ used[s[2]] = s THEN list(s) ELSE cast[s]]

\* swigregister, for each class of the module.  SWIG_TypeClientData also sets the
\* types that are cast without a converter, which is only the type itself.
Registered(m, s) ==
    IF s[2] \in Classes[m] /\ s = types'[m][Place[m][s[2]]] THEN m
    ELSE IF s \in DOMAIN klass THEN klass[s] ELSE None

\* import of a module: its initialisation, then the classes of its Python half;
\* when it is loaded already (reload), only the classes are made again.
Import(m) ==
    /\ IF m \in Loaded THEN UNCHANGED <<modules, types, cast>>
       ELSE InitializeModule(m)
    /\ klass' = [s \in DOMAIN cast' |-> Registered(m, s)]

\* The conversion of an argument looks for a type among the casts to another.
Check(s, name) ==
    /\ cast' = [cast EXCEPT ![s] = Checked(@, name)]
    /\ UNCHANGED <<modules, types, klass>>

TypesNext ==
    \/ \E m \in Modules : Import(m)
    \/ \E m \in Loaded : \E t \in Declared(m) : \E name \in Range(NameOrder) :
           Check(TypeOf(m, t), name)
TypesSpec == TypesInit /\ [][TypesNext]_typeVars
-----------------------------------------------------------------------------
Sources(t) == UNION {IF t \in Declared(m) THEN Range(CastsTo[m][t]) ELSE {} : m \in Loaded}

\* However the imports are ordered, modules that know the same name use the same
\* structure for it, the one of the first of them: objects made by one can be
\* passed to another (l.8959-8961).
CanonicalTypes ==
    \A m \in Loaded : \A t \in Declared(m) :
        /\ TypeOf(m, t)[2] = t
        /\ \A k \in Loaded : t \in Declared(k) => TypeOf(k, t) = TypeOf(m, t)

\* The nodes of a list in their order.  It is followed one link further than it may have.
Behind(c, n) == IF n = None THEN None ELSE c.next[n]
ListOf(c) ==
    LET links == Cardinality(DOMAIN c.next)
        at[k \in 0 .. links] == IF k = 0 THEN c.head ELSE Behind(c, at[k - 1])
    IN  [k \in 1 .. Cardinality({j \in 0 .. links : at[j] # None}) |-> at[k - 1]]

\* The lists survive every import and every move to the head: each cast that some
\* module declared is there, once, and the links back are the links forth.
CastsFound ==
    \A s \in Used :
        LET list == ListOf(cast[s])
        IN  /\ {cast[s].type[list[i]][2] : i \in DOMAIN list} = Sources(s[2])
            /\ Len(list) = Cardinality(Sources(s[2]))
            /\ \A i \in DOMAIN list :
                   cast[s].prev[list[i]] = IF i = 1 THEN None ELSE list[i - 1]

\* Each cast of a list in use names a structure in use: "making sure the type pointer in
\* the swig_cast_info struct is correct" (l.8969-8970).
CastTypesUsed ==
    \A s \in Used : \A n \in Range(ListOf(cast[s])) : cast[s].type[n] \in Used
-----------------------------------------------------------------------------
(***************************************************************************)
(* The invariant of the tables.                                            *)
(***************************************************************************)
\* A structure in use is that of a module loaded, which uses it itself.
StructuresKept ==
    /\ modules \in Seq(Modules) /\ DOMAIN types = Modules
    /\ \A m \in Loaded :
           /\ DOMAIN types[m] = DOMAIN Declares[m]
           /\ \A t \in Declared(m) : \E k \in Loaded :
                  t \in Declared(k) /\ TypeOf(m, t) = <<k, t>> /\ TypeOf(k, t) = <<k, t>>
    /\ CanonicalTypes
    /\ DOMAIN cast = Used /\ DOMAIN klass = Used

\* c links the nodes of list both ways, and no others; each names the type it was made for.
Links(t) == NodesOf[t] \cup {None}
IsList(t, c, list) ==
    /\ c \in [head : Links(t), next : [NodesOf[t] -> Links(t)], prev : [NodesOf[t] -> Links(t)],
              type : [NodesOf[t] -> Modules \X Range(NameOrder)]]
    /\ list \in Seq(NodesOf[t])
    /\ c.head = IF Len(list) = 0 THEN None ELSE list[1]
    /\ \A i \in 1 .. Len(list) :
           /\ c.next[list[i]] = IF i = Len(list) THEN None ELSE list[i + 1]
           /\ c.prev[list[i]] = IF i = 1 THEN None ELSE list[i - 1]
    /\ \A n \in NodesOf[t] :
           /\ c.type[n][2] = n[2]
           /\ (\A i \in 1 .. Len(list) : list[i] # n) => c.next[n] = None /\ c.prev[n] = None

\* It has one node for each type that can be cast, made by a module that is loaded.
Covers(list, sources) ==
    /\ {list[i][2] : i \in 1 .. Len(list)} = sources
    /\ \A i, j \in 1 .. Len(list) : list[i][2] = list[j][2] => i = j
    /\ \A i \in 1 .. Len(list) : list[i][1] \in Loaded

ListsKept ==
    \A s \in Used : LET list == ListOf(cast[s])
                    IN  IsList(s[2], cast[s], list) /\ Covers(list, Sources(s[2]))

\* A structure has a class, of a module that registers one, as soon as one is loaded.
ClassesKept ==
    /\ \A s \in Used : klass[s] # None => klass[s] \in Loaded /\ s[2] \in Classes[klass[s]]
    /\ \A m \in Loaded : \A t \in Classes[m] : klass[TypeOf(m, t)] # None

TypesInv == StructuresKept /\ ListsKept /\ ClassesKept
=============================================================================
