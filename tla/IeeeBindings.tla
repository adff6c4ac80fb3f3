---------------------------- MODULE IeeeBindings ----------------------------
(***************************************************************************)
(* The tables of swig/ieee_swig.cc: its types, the casts it declares among *)
(* them, and its wrappers.  The names of types are shortened: x_sptr for   *)
(* _p_boost__shared_ptrT_x_t.  The class SwigPyIterator is left out: no    *)
(* function makes an object of it.                                         *)
(***************************************************************************)
EXTENDS SwigWrappers

\* swig_type_initial, in the order of the names (that of strcmp).
IeeeTypes ==
    <<"allocator_type", "pmt_t", "gr_basic_block_sptr",
      "gr_block_detail_sptr", "gr_block_sptr", "gr_buffer_reader_sptr",
      "gr_buffer_sptr", "gr_dispatcher_sptr", "gr_hier_block2_sptr",
      "gr_io_signature_sptr", "gr_message_sptr", "gr_msg_queue_sptr",
      "gr_single_threaded_scheduler_sptr", "gr_top_block_sptr",
      "packet_sink_sptr", "symbols_to_chips_bs_sptr", "char",
      "difference_type", "gr_basic_block", "gr_block", "gr_hier_block2",
      "gr_sync_block", "gr_sync_decimator", "gr_sync_interpolator",
      "gr_top_block", "rt_status_t", "packet_sink", "symbols_to_chips_bs",
      "int", "long_long", "short", "signed_char", "size_type",
      "complex_double", "complex_float", "invalid_argument",
      "SwigPyIterator", "unsigned_char", "unsigned_int",
      "unsigned_long_long", "unsigned_short", "value_type">>

\* swig_cast_initial: what can be cast to a base class; every other type has only
\* itself.
IeeeCastsTo(t) ==
    CASE t = "gr_basic_block" ->
             <<"gr_sync_decimator", "packet_sink", "gr_basic_block",
               "gr_hier_block2", "gr_sync_block", "symbols_to_chips_bs",
               "gr_block", "gr_sync_interpolator", "gr_top_block">>
      [] t = "gr_block" ->
             <<"gr_sync_decimator", "packet_sink", "gr_sync_block",
               "symbols_to_chips_bs", "gr_block", "gr_sync_interpolator">>
      [] OTHER -> <<t>>

\* ieee_symbols_to_chips_bs_sptr
chips_sptr == "symbols_to_chips_bs_sptr"
chips_pointers        == Pointers("ieee", chips_sptr, "symbols_to_chips_bs")
chips_rates           == Rates("ieee", chips_sptr)
chips_start_stop      == StartStop("ieee", chips_sptr)
chips_items           == Items("ieee", chips_sptr)
chips_noutput         == Noutput("ieee", chips_sptr)
chips_max_buffer      == BufferOf("ieee", chips_sptr, "max_output_buffer")
chips_set_max_buffer  == SetBufferOf("ieee", chips_sptr, "set_max_output_buffer")
chips_min_buffer      == BufferOf("ieee", chips_sptr, "min_output_buffer")
chips_set_min_buffer  == SetBufferOf("ieee", chips_sptr, "set_min_output_buffer")
chips_details         == Details("ieee", chips_sptr)
chips_signatures      == Signatures("ieee", chips_sptr)
chips_aliases         == Aliases("ieee", chips_sptr)
chips_messages        == Messages("ieee", chips_sptr)
chips_make            == {Factory("ieee", "symbols_to_chips_bs", chips_sptr, <<>>)}
chips_wrappers == UNION {
    chips_pointers, chips_rates, chips_start_stop, chips_items,
    chips_noutput, chips_max_buffer, chips_set_max_buffer, chips_min_buffer,
    chips_set_min_buffer, chips_details, chips_signatures, chips_aliases,
    chips_messages, chips_make}

\* ieee_ieee802_15_4_packet_sink_sptr, made for a queue and a threshold
sink_sptr == "packet_sink_sptr"
sink_pointers         == Pointers("ieee", sink_sptr, "packet_sink")
sink_rates            == Rates("ieee", sink_sptr)
sink_start_stop       == StartStop("ieee", sink_sptr)
sink_items            == Items("ieee", sink_sptr)
sink_noutput          == Noutput("ieee", sink_sptr)
sink_max_buffer       == BufferOf("ieee", sink_sptr, "max_output_buffer")
sink_set_max_buffer   == SetBufferOf("ieee", sink_sptr, "set_max_output_buffer")
sink_min_buffer       == BufferOf("ieee", sink_sptr, "min_output_buffer")
sink_set_min_buffer   == SetBufferOf("ieee", sink_sptr, "set_min_output_buffer")
sink_details          == Details("ieee", sink_sptr)
sink_signatures       == Signatures("ieee", sink_sptr)
sink_aliases          == Aliases("ieee", sink_sptr)
sink_messages         == Messages("ieee", sink_sptr)
sink_make             == {Factory("ieee", "ieee802_15_4_packet_sink", sink_sptr,
                                  <<Value("gr_msg_queue_sptr"), Number("int")>>)}
sink_wrappers == UNION {
    sink_pointers, sink_rates, sink_start_stop, sink_items,
    sink_noutput, sink_max_buffer, sink_set_max_buffer, sink_min_buffer,
    sink_set_min_buffer, sink_details, sink_signatures, sink_aliases,
    sink_messages, sink_make}

\* The classes that the module's Python half registers, and all its wrappers.
IeeeClasses  == {chips_sptr, sink_sptr}
IeeeWrappers == chips_wrappers \cup sink_wrappers
=============================================================================
