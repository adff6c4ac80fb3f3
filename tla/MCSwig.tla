------------------------------- MODULE MCSwig -------------------------------
(***************************************************************************)
(* One interpreter that imports the two modules of the repository and GNU  *)
(* Radio's own, in any order.  What GNU Radio's module declares is known   *)
(* from the others: their types that begin with gr_ and pmt_t.             *)
(***************************************************************************)
EXTENDS SwigObjects, IeeeBindings, HowtoBindings, TLC

CONSTANTS
    MaxChecks,   \* bound of the model on type checks outside of calls
    Looks,       \* the types looked for in the lists of base classes
    MaxReloads   \* bound of the model on modules imported again

CoreDeclares(t) ==
    t \in {"pmt_t", "gr_basic_block_sptr", "gr_block_detail_sptr", "gr_block_sptr",
           "gr_io_signature_sptr", "gr_msg_queue_sptr", "gr_top_block_sptr", "gr_basic_block",
           "gr_block", "gr_hier_block2", "gr_sync_block", "gr_sync_decimator",
           "gr_sync_interpolator", "gr_top_block"}

MCModules   == {"ieee", "howto", "core"}
RepoModules == {"ieee", "howto"}  \* without GNU Radio's own
MCNameOrder == HowtoTypes
MCDeclares  == ("ieee" :> IeeeTypes) @@ ("howto" :> HowtoTypes)
               @@ ("core" :> SelectSeq(IeeeTypes, CoreDeclares))
MCCastsTo   ==
    ("ieee" :> [t \in Range(IeeeTypes) |-> IeeeCastsTo(t)])
    @@ ("howto" :> [t \in Range(HowtoTypes) |-> HowtoCastsTo(t)])
    @@ ("core" :> [t \in Range(MCDeclares["core"]) |->
                      SelectSeq(HowtoCastsTo(t), CoreDeclares)])
MCClasses   == ("ieee" :> IeeeClasses) @@ ("howto" :> HowtoClasses)
               @@ ("core" :> {t \in Range(MCDeclares["core"]) :
                                 t = "pmt_t" \/ t \in {"gr_basic_block_sptr", "gr_block_sptr",
                                     "gr_block_detail_sptr", "gr_io_signature_sptr",
                                     "gr_msg_queue_sptr", "gr_top_block_sptr"}})
MCWrappers  == IeeeWrappers \cup HowtoWrappers
MCNumbers   == {{"int", "long", "unsigned int"}, {"long"}}

VARIABLES checks, reloads
mcVars == <<vars, checks, reloads>>

MCInit == TypesInit /\ ObjectsInit /\ checks = 0 /\ reloads = 0

\* Checks concern types that no call here asks for, so that lists are looked at before
\* the first object is made, and objects are made where none was.
MCImport(m) ==
    /\ ~aborted /\ Import(m) /\ UNCHANGED <<objectVars, checks>>
    /\ reloads' = IF m \in Loaded THEN reloads + 1 ELSE reloads
    /\ reloads' <= MaxReloads
MCCheck(m, t, name) ==
    /\ checks < MaxChecks /\ cells = <<>> /\ m \in Loaded /\ t \in Declared(m)
    /\ Check(TypeOf(m, t), name) /\ UNCHANGED <<objectVars, reloads>>
    /\ checks' = checks + 1
MCObjects == checks = 0 /\ ObjectsNext /\ UNCHANGED <<checks, reloads>>

MCNext ==
    \/ \E m \in Modules : MCImport(m)
    \/ \E m \in Modules, t \in {"gr_basic_block", "gr_block", "gr_sync_block"}, name \in Looks :
           MCCheck(m, t, name)
    \/ MCObjects

MCSpec == MCInit /\ [][MCNext]_mcVars
=============================================================================
