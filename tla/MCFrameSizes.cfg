SPECIFICATION SizesSpec
INVARIANT AcceptedFramesFitReceiver
CHECK_DEADLOCK FALSE
