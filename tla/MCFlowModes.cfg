SPECIFICATION Spec
INVARIANT FlowsAccounted
PROPERTIES EachOnce NeverBackwards UnorderedDelivered
\* the flow is quiet once every message is delivered and polled
CHECK_DEADLOCK FALSE
