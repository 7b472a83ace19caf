--------------------------- MODULE MCRequestManager ---------------------------
(* RequestManager for TLC.                                                 *)
EXTENDS RequestManager

Kind(t, z, n, e, w, r, s) ==
    [type |-> t, zcl |-> z, node |-> n, ep |-> e, what |-> w, resp |-> r, size |-> s]

NodeDesc      == Kind("AZAP_ZDO_NODE_DESC_REQ", FALSE, 1, 0, 0, TRUE, "fits")
SimpleDesc(e) == Kind("AZAP_ZDO_SIMPLE_DESC_REQ", FALSE, 1, e, 0, TRUE, "fits")
Read(s)       == Kind("AZAP_ZCL_READ_CMD", TRUE, 1, 1, 6, TRUE, s)
Command       == Kind("AZAP_ZCL_OUTGOING_CMD", TRUE, 2, 1, 7, FALSE, "fits")

\* To one node a node descriptor request, which has no end point, descriptor
\* requests for two end points, whose answers name the end point unless they
\* report a failure, an attribute read, and reads of too many attributes for
\* a frame; to another node a command that expects no answer and is postponed
\* when the first node fills the dongle.
const_Kinds == {NodeDesc, SimpleDesc(1), SimpleDesc(2), Command}
                 \cup {Read(s) : s \in Sizes}

\* Two requests of one node and nothing else.
const_TtlKinds == {NodeDesc, Read("fits")}

=============================================================================
