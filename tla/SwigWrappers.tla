---------------------------- MODULE SwigWrappers ----------------------------
(***************************************************************************)
(* The wrapper functions that SWIG generates for a boost::shared_ptr to a  *)
(* block, as rows of a table: what a wrapper takes and what the C++ call   *)
(* in it does.  IeeeBindings and HowtoBindings list those of the two       *)
(* modules with the operators below, class by class; SwigObjects says what *)
(* a call does.  All wrappers of one shape have one row.                   *)
(***************************************************************************)
EXTENDS Integers, Sequences

\* Parameters: a pointer to a wrapped object, where Python's None is a null
\* pointer; a copy of one, where None is refused; a number; a string.
Pointer(t) == [by |-> "pointer", of |-> t]
Value(t)   == [by |-> "value", of |-> t]
Number(t)  == [by |-> "number", of |-> t]
Text       == [by |-> "text", of |-> "std::string"]

(***************************************************************************)
(* Shapes.  takes: the parameters, a sequence for each overload; does: the *)
(* kind of call; gives: the type of the object returned, void when there   *)
(* is none.  A method has the shared_ptr as its first parameter.           *)
(***************************************************************************)
Row(m, names, takes, does, gives) ==
    [module |-> m, names |-> names, takes |-> takes, does |-> does, gives |-> gives]

Method(m, sptr, names, params) == Row(m, names, {<<Pointer(sptr)>> \o params}, "use", "void")
Overloaded(m, sptr, name, lists) ==
    Row(m, {name}, {<<Pointer(sptr)>> \o params : params \in lists}, "use", "void")
Getter(m, sptr, names, gives)  == Row(m, names, {<<Pointer(sptr)>>}, "copy", gives)
Upcast(m, sptr, name, gives)   == Row(m, {name}, {<<Pointer(sptr)>>}, "share", gives)
Deref(m, sptr, block)          == Row(m, {"__deref__"}, {<<Pointer(sptr)>>}, "deref", block)
New(m, sptr, block)            == Row(m, {"new"}, {<<>>, <<Pointer(block)>>}, "new", sptr)
Delete(m, sptr)                == Row(m, {"delete"}, {<<Pointer(sptr)>>}, "delete", "void")
Factory(m, name, sptr, params) == Row(m, {name}, {params}, "make", sptr)

(***************************************************************************)
(* The wrappers of one class, in the order of the file.                    *)
(***************************************************************************)
Pointers(m, sptr, block) == {New(m, sptr, block), Deref(m, sptr, block), Delete(m, sptr)}
Rates(m, sptr)    == {Method(m, sptr, {"history", "output_multiple", "relative_rate"}, <<>>)}
StartStop(m, sptr) == {Method(m, sptr, {"start", "stop"}, <<>>)}
Items(m, sptr)    ==
    {Method(m, sptr, {"nitems_read", "nitems_written"}, <<Number("unsigned int")>>)}
Noutput(m, sptr)  ==
    {Method(m, sptr, {"max_noutput_items", "unset_max_noutput_items",
                      "is_set_max_noutput_items"}, <<>>),
     Method(m, sptr, {"set_max_noutput_items"}, <<Number("int")>>)}
BufferOf(m, sptr, name)    == {Method(m, sptr, {name}, <<Number("int")>>)}
SetBufferOf(m, sptr, name) ==
    {Overloaded(m, sptr, name, {<<Number("long")>>, <<Number("int"), Number("long")>>})}
Details(m, sptr)  ==
    {Getter(m, sptr, {"detail"}, "gr_block_detail_sptr"),
     Method(m, sptr, {"set_detail"}, <<Value("gr_block_detail_sptr")>>),
     Method(m, sptr, {"name", "symbol_name"}, <<>>)}
Signatures(m, sptr) ==
    {Getter(m, sptr, {"input_signature", "output_signature"}, "gr_io_signature_sptr"),
     Method(m, sptr, {"unique_id"}, <<>>),
     Upcast(m, sptr, "to_basic_block", "gr_basic_block_sptr")}
Aliases(m, sptr)  ==
    {Method(m, sptr, {"check_topology"}, <<Number("int"), Number("int")>>),
     Method(m, sptr, {"alias"}, <<>>),
     Method(m, sptr, {"set_block_alias"}, <<Text>>)}
Messages(m, sptr) ==
    {Method(m, sptr, {"_post"}, <<Value("pmt_t"), Value("pmt_t")>>),
     Getter(m, sptr, {"message_ports_in", "message_ports_out"}, "pmt_t")}
=============================================================================
