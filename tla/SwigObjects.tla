---------------------------- MODULE SwigObjects -----------------------------
(***************************************************************************)
(* Python objects that stand for C++ objects: what the wrapper functions   *)
(* that SWIG generates for boost::shared_ptr to a block do, and the part   *)
(* of its runtime that makes, converts and destroys objects                *)
(* (swig/ieee_swig.cc, l.1430-1810 and 2200-2610).  A Python object holds  *)
(* the address of a shared_ptr on the C++ heap (a cell), or of a block;    *)
(* when it goes away it deletes the cell if it owns it.  Which exception a *)
(* failing call raises is left out, and so are calls of a delete wrapper   *)
(* by the program, of a method with None for the object, and of new with   *)
(* the block that __deref__ gave: each leaves C++ undefined behaviour.     *)
(***************************************************************************)
EXTENDS SwigTypes, SwigWrappers

CONSTANTS
    Wrappers,    \* the rows of all modules
    Core,        \* GNU Radio's own module
    Numbers,     \* numbers to call with: each the set of C types it fits
    MaxCells,    \* bound of the model on shared_ptrs ever made
    MaxObjects   \* bound of the model on Python objects at a time

BlockTypes == {row.gives : row \in {w \in Wrappers : w.does = "deref"}}
OurTypes   == {row.gives : row \in {w \in Wrappers : w.does = "make"}}

\* A parameter that takes a shared_ptr takes no block: no cast leads from one to the other.
TakesNoBlock(t) ==
    \A m \in Modules : t \in Declared(m) => Range(CastsTo[m][t]) \cap BlockTypes = {}

IsMethod(row) == row.does \notin {"new", "make"}

\* What SWIG generates: a wrapper gives an object of a type that its module declares, for
\* which it has a class if it is a factory's; a method is called for a shared_ptr.
ASSUME ObjectsAssumption ==
    /\ MaxObjects \in Nat /\ MaxCells \in Nat
    /\ None \notin [type : Modules \X Range(NameOrder), ptr : Nat, own : BOOLEAN]
    /\ \A row \in Wrappers :
           /\ row.module \in Modules
           /\ row.does \in {"copy", "share", "new", "make", "deref"} =>
                  /\ row.gives \in Declared(row.module)
                  /\ row.gives \in OurTypes => row.gives \in Classes[row.module]
           /\ row.does \in {"copy", "share", "new", "make"} => row.gives \notin BlockTypes
           /\ IsMethod(row) =>
                  \A params \in row.takes :
                      /\ 1 \in DOMAIN params /\ params[1].by \in {"pointer", "value"}
                      /\ params[1].of \in Declared(row.module) /\ TakesNoBlock(params[1].of)
    /\ {"gr_msg_queue_sptr", "gr_basic_block_sptr"} \cap (BlockTypes \cup OurTypes) = {}
    /\ Core \in Modules =>
           /\ {"gr_msg_queue_sptr", "gr_basic_block_sptr"} \subseteq Declared(Core)
           /\ TakesNoBlock("gr_basic_block_sptr")

VARIABLES
    objects,  \* Python's objects, by place: [type: a structure, ptr, own], or None
    cells,    \* the shared_ptrs made: [type, block (0: none of ours), deleted]
    uses,     \* of each block made: how many shared_ptrs count on it
    graph,    \* the blocks that a flow graph has a shared_ptr to
    aborted   \* an assertion has failed

objectVars == <<objects, cells, uses, graph, aborted>>
vars == <<typeVars, objectVars>>

Places == 1 .. MaxObjects

ObjectsInit ==
    /\ objects = [o \in Places |-> None]
    /\ cells = <<>> /\ uses = <<>> /\ graph = {}
    /\ aborted = FALSE

(***************************************************************************)
(* Conversion of arguments.  SWIG_ConvertPtr takes an object of the type,  *)
(* or of one that can be cast to it; here the list of every type that is a *)
(* parameter has one node, so that the look does not move any.             *)
(***************************************************************************)
NoneArg     == [is |-> "none", v |-> 0]
ObjectArgs  == {[is |-> "object", v |-> o] : o \in {p \in Places : objects[p] # None}}
NumberArgs  == {[is |-> "number", v |-> n] : n \in Numbers}
TextArg     == [is |-> "text", v |-> 0]

ConvertPtr_Same(from, to) == from = to  \* Mutant: only an object of the type itself.
ConvertPtr(from, to) == from = to \/ Lookup(cast[to], from[2]) # None

Converts(m, arg, param) ==
    CASE param.by \in {"pointer", "value"} /\ arg.is = "object" ->
             ConvertPtr(objects[arg.v].type, TypeOf(m, param.of))
      [] arg.is = "none"   -> param.by = "pointer"
      [] arg.is = "number" -> param.by = "number" /\ param.of \in arg.v
      [] OTHER             -> param.by = "text" /\ arg.is = "text"

\* The overload that the arguments fit, if there is one.
Accepts(row, args) ==
    \E params \in row.takes :
        /\ Len(params) = Len(args)
        /\ \A i \in DOMAIN args : Converts(row.module, args[i], params[i])

\* What a program passes: any object for an object, any number for a number, and None
\* where it is not the object of a method.
Passed(row, param, i) ==
    IF param.by \in {"pointer", "value"}
    THEN (IF row.does = "new" THEN {} ELSE ObjectArgs)
             \cup (IF IsMethod(row) /\ i = 1 THEN {} ELSE {NoneArg})
    ELSE IF param.by = "number" THEN NumberArgs ELSE {TextArg}
Arguments(row) ==
    UNION {LET any == UNION {Passed(row, params[i], i) : i \in DOMAIN params}
           IN  {args \in [DOMAIN params -> any] :
                   \A i \in DOMAIN params : args[i] \in Passed(row, params[i], i)} :
           params \in row.takes}

(***************************************************************************)
(* The calls.  A block goes with the last shared_ptr that counts on it.    *)
(***************************************************************************)
Counted(b, n)  == IF b = 0 THEN uses ELSE [uses EXCEPT ![b] = @ + n]
FreePlaces     == {o \in Places : objects[o] = None}
Fits           == Len(cells) < MaxCells /\ FreePlaces # {}

\* SWIG_NewPointerObj
NewPointerObj(m, t, ptr, own) ==
    LET o == CHOOSE p \in FreePlaces : \A q \in FreePlaces : p <= q
    IN  objects' = [objects EXCEPT ![o] = [type |-> TypeOf(m, t), ptr |-> ptr, own |-> own]]

\* A shared_ptr on the heap, and an object that owns it.
NewCell(m, t, b) ==
    /\ Fits
    /\ cells' = Append(cells, [type |-> t, block |-> b, deleted |-> 0])
    /\ NewPointerObj(m, t, Len(cells) + 1, TRUE)

BlockOf(args) == cells[objects[args[1].v].ptr].block

\* An argument that no overload takes, or an exception in C++.
Raise == ~aborted /\ UNCHANGED vars

\* A method of a shared_ptr that points nowhere: the assertion of operator-> fails, and
\* the process ends.
Abort(rows) ==
    /\ ~aborted
    /\ {row \in rows : IsMethod(row) /\ \E args \in Arguments(row) :
                                           Accepts(row, args) /\ BlockOf(args) = 0} # {}
    /\ aborted' = TRUE /\ UNCHANGED typeVars
    /\ objects' = [o \in Places |-> None]
    /\ cells' = <<>> /\ uses' = <<>> /\ graph' = {}

\* A method that returns no object of the kinds here: whichever it is, nothing changes.
Use(rows) ==
    /\ ~aborted
    /\ {row \in rows : row.does = "use" /\ \E args \in Arguments(row) :
                                               Accepts(row, args) /\ BlockOf(args) # 0} # {}
    /\ UNCHANGED vars

\* A shared_ptr to something else that the block holds: its detail, a signature.
Copy(row, args) ==
    /\ row.does = "copy" /\ BlockOf(args) # 0
    /\ NewCell(row.module, row.gives, 0)
    /\ UNCHANGED <<uses, graph, aborted>>

Shared_NotCounted(b) == uses  \* Mutant: the address is copied, and not the shared_ptr.
Shared(b) == Counted(b, 1)

ToBasicBlock(row, args) ==
    /\ row.does = "share" /\ BlockOf(args) # 0
    /\ NewCell(row.module, row.gives, BlockOf(args))
    /\ uses' = Shared(BlockOf(args))
    /\ UNCHANGED <<graph, aborted>>

\* The address of the block itself, in an object that does not own it.
Dereference(row, args) ==
    /\ row.does = "deref" /\ BlockOf(args) # 0 /\ FreePlaces # {}
    /\ NewPointerObj(row.module, row.gives, BlockOf(args), FALSE)
    /\ UNCHANGED <<cells, uses, graph, aborted>>

\* The constructor without a block, and with None for it.
NewEmpty(row, args) ==
    /\ row.does = "new"
    /\ NewCell(row.module, row.gives, 0)
    /\ UNCHANGED <<uses, graph, aborted>>

\* The factory's own shared_ptr goes when the wrapper returns; the copy stays.
Make(row, args) ==
    /\ row.does = "make"
    /\ NewCell(row.module, row.gives, Len(uses) + 1)
    /\ uses' = Append(uses, 1)
    /\ UNCHANGED <<graph, aborted>>

Call(row, args) ==
    /\ ~aborted /\ Accepts(row, args)
    /\ \/ Copy(row, args) \/ ToBasicBlock(row, args) \/ Dereference(row, args)
       \/ NewEmpty(row, args) \/ Make(row, args)
    /\ UNCHANGED typeVars

(***************************************************************************)
(* SwigPyObject_dealloc: the last reference to an object has gone.  If it  *)
(* owns its cell, the delete wrapper of the class that its type has now is *)
(* called, with a temporary object for the same cell that owns nothing;    *)
(* that goes the same way.  A type without a class has no destructor: the  *)
(* cell leaks.                                                             *)
(***************************************************************************)
Temporary_Owns(obj) == obj  \* Mutant: the temporary object takes after the first.
Temporary(obj) == [obj EXCEPT !.own = FALSE]
Destroys(obj) ==
    obj.own /\ klass[obj.type] # None /\ ConvertPtr(obj.type, TypeOf(klass[obj.type], obj.type[2]))
Deletions(obj) == (IF Destroys(obj) THEN 1 ELSE 0) + (IF Destroys(Temporary(obj)) THEN 1 ELSE 0)

Dealloc(o) ==
    /\ ~aborted /\ objects[o] # None
    /\ LET obj == objects[o]
           n   == Deletions(obj)
       IN  IF n = 0 THEN UNCHANGED <<cells, uses>>
           ELSE /\ cells' = [cells EXCEPT ![obj.ptr].deleted = @ + n]
                /\ uses' = Counted(cells[obj.ptr].block, -n)
    /\ objects' = [objects EXCEPT ![o] = None]
    /\ UNCHANGED <<typeVars, graph, aborted>>

(***************************************************************************)
(* What GNU Radio's own module does with objects of these: connect() keeps *)
(* a copy of the shared_ptr that to_basic_block() gave, disconnect() drops *)
(* it; msg_queue() makes an object that a factory takes.                   *)
(***************************************************************************)
Connect(o) ==
    /\ ~aborted /\ Core \in Loaded /\ objects[o] # None
    /\ ConvertPtr(objects[o].type, TypeOf(Core, "gr_basic_block_sptr"))
    /\ LET b == cells[objects[o].ptr].block
       IN  /\ b \notin graph \cup {0} /\ graph' = graph \cup {b}
           /\ uses' = Counted(b, 1)
    /\ UNCHANGED <<typeVars, objects, cells, aborted>>

Disconnect(b) ==
    /\ ~aborted /\ graph' = graph \ {b}
    /\ uses' = Counted(b, -1)
    /\ UNCHANGED <<typeVars, objects, cells, aborted>>

MsgQueue ==
    /\ ~aborted /\ Core \in Loaded
    /\ NewCell(Core, "gr_msg_queue_sptr", 0)
    /\ UNCHANGED <<typeVars, uses, graph, aborted>>

Shapes == {[module |-> row.module, takes |-> row.takes, does |-> row.does, gives |-> row.gives] :
              row \in {w \in Wrappers : w.does # "delete"}}

ObjectsNext ==
    \/ LET rows == {s \in Shapes : s.module \in Loaded}
       IN  \/ \E row \in {r \in rows : r.does # "use"} :
                  \E args \in Arguments(row) : Call(row, args)
           \/ Use(rows) \/ Abort(rows)
    \/ Raise
    \/ \E o \in Places : Dealloc(o) \/ Connect(o)
    \/ \E b \in graph : Disconnect(b)
    \/ MsgQueue

\* A program that imports modules, in whatever order, and calls what they have.
Init == TypesInit /\ ObjectsInit
Next == (~aborted /\ TypesNext /\ UNCHANGED objectVars) \/ ObjectsNext
Spec == Init /\ [][Next]_vars
-----------------------------------------------------------------------------
Holders(a) == {o \in Places : /\ objects[o] # None /\ objects[o].ptr = a
                              /\ objects[o].type[2] \notin BlockTypes}

\* Each shared_ptr is deleted once, by the one object that holds it, whichever module's
\* delete wrapper does it and whatever was imported since; none leaks that a factory made.
OwnedOnce ==
    \A a \in DOMAIN cells :
        /\ cells[a].deleted + Cardinality(Holders(a)) <= 1
        /\ cells[a].type \in OurTypes => cells[a].deleted + Cardinality(Holders(a)) = 1

\* A block exists as long as a shared_ptr of Python or of a flow graph points to it and
\* no longer, in whatever order objects go away and graphs are taken apart.
HeldBlocksLive ==
    \A b \in DOMAIN uses :
        uses[b] > 0 <=>
            b \in graph \/ \E a \in DOMAIN cells : cells[a].block = b /\ cells[a].deleted = 0

\* An object is accepted for a parameter of any module exactly when its type has the
\* name that the parameter has, or one that some module can cast to it: it does not matter
\* which module made it, nor which were imported before and after.
AcceptedByName ==
    \A o \in Places : objects[o] # None =>
        \A m \in Loaded : \A t \in Declared(m) :
            ConvertPtr(objects[o].type, TypeOf(m, t)) <=> objects[o].type[2] \in Sources(t)
-----------------------------------------------------------------------------
(***************************************************************************)
(* The invariant of the objects, which rests on that of the tables.        *)
(***************************************************************************)
Objects == [type : Used, ptr : Nat, own : BOOLEAN]
ObjectsTyped ==
    /\ objects \in [Places -> Objects \cup {None}]
    /\ cells \in Seq([type : Range(NameOrder), block : 0 .. Len(uses), deleted : {0, 1}])
    /\ uses \in Seq(Nat) /\ graph \subseteq 1 .. Len(uses)

\* Only the address of a block is not owned; all else is the only object for its cell.
CellsHeld ==
    /\ \A o \in Places : objects[o] # None =>
           IF objects[o].type[2] \in BlockTypes THEN ~objects[o].own
           ELSE /\ objects[o].own /\ objects[o].ptr \in 1 .. Len(cells)
                /\ cells[objects[o].ptr].type = objects[o].type[2]
                /\ cells[objects[o].ptr].deleted = 0
    /\ \A a \in 1 .. Len(cells) : \A o, p \in Holders(a) : o = p
    /\ \A a \in 1 .. Len(cells) :
           cells[a].type \in OurTypes /\ cells[a].deleted = 0 => Holders(a) # {}

\* An object that a factory made has a class, and with it a destructor.
OursDestroyed ==
    \A o \in Places : objects[o] # None /\ objects[o].type[2] \in OurTypes
                          => klass[objects[o].type] # None

\* The count of a block is that of what points to it.
Sharing(b) == {a \in 1 .. Len(cells) : cells[a].block = b /\ cells[a].deleted = 0}
UsesCounted ==
    \A b \in 1 .. Len(uses) :
        uses[b] = Cardinality(Sharing(b)) + (IF b \in graph THEN 1 ELSE 0)

ObjectsInv == TypesInv /\ ObjectsTyped /\ CellsHeld /\ OursDestroyed /\ UsesCounted
=============================================================================
