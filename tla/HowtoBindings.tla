--------------------------- MODULE HowtoBindings ----------------------------
(***************************************************************************)
(* The tables of swig/howto_swig.cc, as IeeeBindings has those of          *)
(* swig/ieee_swig.cc.  This older module has the same two classes and one  *)
(* more, that of howto_square2_ff, whose source is not in the repository.  *)
(* The same interpreter can import both.                                   *)
(***************************************************************************)
EXTENDS SwigWrappers

\* swig_type_initial, in the order of the names (that of strcmp).
HowtoTypes ==
    <<"allocator_type", "pmt_t", "gr_basic_block_sptr",
      "gr_block_detail_sptr", "gr_block_sptr", "gr_buffer_reader_sptr",
      "gr_buffer_sptr", "gr_dispatcher_sptr", "gr_hier_block2_sptr",
      "gr_io_signature_sptr", "gr_message_sptr", "gr_msg_queue_sptr",
      "gr_single_threaded_scheduler_sptr", "gr_top_block_sptr",
      "howto_square2_ff_sptr", "packet_sink_sptr",
      "symbols_to_chips_bs_sptr", "char", "difference_type",
      "gr_basic_block", "gr_block", "gr_hier_block2", "gr_sync_block",
      "gr_sync_decimator", "gr_sync_interpolator", "gr_top_block",
      "rt_status_t", "howto_square2_ff", "packet_sink",
      "symbols_to_chips_bs", "int", "long_long", "short", "signed_char",
      "size_type", "complex_double", "complex_float", "invalid_argument",
      "SwigPyIterator", "unsigned_char", "unsigned_int",
      "unsigned_long_long", "unsigned_short", "value_type">>

\* swig_cast_initial: what can be cast to a base class; every other type has only
\* itself.
HowtoCastsTo(t) ==
    CASE t = "gr_basic_block" ->
             <<"howto_square2_ff", "gr_sync_decimator", "packet_sink",
               "gr_basic_block", "gr_hier_block2", "gr_sync_block",
               "symbols_to_chips_bs", "gr_sync_interpolator", "gr_block",
               "gr_top_block">>
      [] t = "gr_block" ->
             <<"howto_square2_ff", "gr_sync_decimator", "packet_sink",
               "gr_sync_block", "symbols_to_chips_bs", "gr_block",
               "gr_sync_interpolator">>
      [] t = "gr_sync_block" ->
             <<"howto_square2_ff", "gr_sync_decimator", "gr_sync_block",
               "gr_sync_interpolator">>
      [] OTHER -> <<t>>

\* ieee_symbols_to_chips_bs_sptr
howto_chips_sptr == "symbols_to_chips_bs_sptr"
howto_chips_pointers  == Pointers("howto", howto_chips_sptr, "symbols_to_chips_bs")
howto_chips_rates     == Rates("howto", howto_chips_sptr)
howto_chips_start_stop == StartStop("howto", howto_chips_sptr)
howto_chips_items     == Items("howto", howto_chips_sptr)
howto_chips_noutput   == Noutput("howto", howto_chips_sptr)
howto_chips_max_buffer == BufferOf("howto", howto_chips_sptr, "max_output_buffer")
howto_chips_set_max_buffer == SetBufferOf("howto", howto_chips_sptr, "set_max_output_buffer")
howto_chips_min_buffer == BufferOf("howto", howto_chips_sptr, "min_output_buffer")
howto_chips_set_min_buffer == SetBufferOf("howto", howto_chips_sptr, "set_min_output_buffer")
howto_chips_details   == Details("howto", howto_chips_sptr)
howto_chips_signatures == Signatures("howto", howto_chips_sptr)
howto_chips_aliases   == Aliases("howto", howto_chips_sptr)
howto_chips_messages  == Messages("howto", howto_chips_sptr)
howto_chips_make      == {Factory("howto", "symbols_to_chips_bs", howto_chips_sptr, <<>>)}
howto_chips_wrappers == UNION {
    howto_chips_pointers, howto_chips_rates, howto_chips_start_stop, howto_chips_items,
    howto_chips_noutput, howto_chips_max_buffer, howto_chips_set_max_buffer, howto_chips_min_buffer,
    howto_chips_set_min_buffer, howto_chips_details, howto_chips_signatures, howto_chips_aliases,
    howto_chips_messages, howto_chips_make}

\* howto_square2_ff_sptr
square2_sptr == "howto_square2_ff_sptr"
square2_pointers      == Pointers("howto", square2_sptr, "howto_square2_ff")
square2_rates         == Rates("howto", square2_sptr)
square2_start_stop    == StartStop("howto", square2_sptr)
square2_items         == Items("howto", square2_sptr)
square2_noutput       == Noutput("howto", square2_sptr)
square2_max_buffer    == BufferOf("howto", square2_sptr, "max_output_buffer")
square2_set_max_buffer == SetBufferOf("howto", square2_sptr, "set_max_output_buffer")
square2_min_buffer    == BufferOf("howto", square2_sptr, "min_output_buffer")
square2_set_min_buffer == SetBufferOf("howto", square2_sptr, "set_min_output_buffer")
square2_details       == Details("howto", square2_sptr)
square2_signatures    == Signatures("howto", square2_sptr)
square2_aliases       == Aliases("howto", square2_sptr)
square2_messages      == Messages("howto", square2_sptr)
square2_make          == {Factory("howto", "square2_ff", square2_sptr, <<>>)}
square2_wrappers == UNION {
    square2_pointers, square2_rates, square2_start_stop, square2_items,
    square2_noutput, square2_max_buffer, square2_set_max_buffer, square2_min_buffer,
    square2_set_min_buffer, square2_details, square2_signatures, square2_aliases,
    square2_messages, square2_make}

\* ieee_ieee802_15_4_packet_sink_sptr, made for a queue and a threshold
howto_sink_sptr == "packet_sink_sptr"
howto_sink_pointers   == Pointers("howto", howto_sink_sptr, "packet_sink")
howto_sink_rates      == Rates("howto", howto_sink_sptr)
howto_sink_start_stop == StartStop("howto", howto_sink_sptr)
howto_sink_items      == Items("howto", howto_sink_sptr)
howto_sink_noutput    == Noutput("howto", howto_sink_sptr)
howto_sink_max_buffer == BufferOf("howto", howto_sink_sptr, "max_output_buffer")
howto_sink_set_max_buffer == SetBufferOf("howto", howto_sink_sptr, "set_max_output_buffer")
howto_sink_min_buffer == BufferOf("howto", howto_sink_sptr, "min_output_buffer")
howto_sink_set_min_buffer == SetBufferOf("howto", howto_sink_sptr, "set_min_output_buffer")
howto_sink_details    == Details("howto", howto_sink_sptr)
howto_sink_signatures == Signatures("howto", howto_sink_sptr)
howto_sink_aliases    == Aliases("howto", howto_sink_sptr)
howto_sink_messages   == Messages("howto", howto_sink_sptr)
howto_sink_make       == {Factory("howto", "ieee802_15_4_packet_sink", howto_sink_sptr,
                                  <<Value("gr_msg_queue_sptr"), Number("int")>>)}
howto_sink_wrappers == UNION {
    howto_sink_pointers, howto_sink_rates, howto_sink_start_stop, howto_sink_items,
    howto_sink_noutput, howto_sink_max_buffer, howto_sink_set_max_buffer, howto_sink_min_buffer,
    howto_sink_set_min_buffer, howto_sink_details, howto_sink_signatures, howto_sink_aliases,
    howto_sink_messages, howto_sink_make}

\* The classes that the module's Python half registers, and all its wrappers.
HowtoClasses  == {howto_chips_sptr, square2_sptr, howto_sink_sptr}
HowtoWrappers == howto_chips_wrappers \cup square2_wrappers \cup howto_sink_wrappers
=============================================================================
