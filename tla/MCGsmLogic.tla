----------------------------- MODULE MCGsmLogic -----------------------------
(* Values for model checking GsmLogic. *)
EXTENDS GsmLogic

From(f, T) == {[from |-> f, text |-> t] : t \in T}

DoorAndStatus == From("registered", {"OPEN", "STATUS"}) \cup From("other", {"OPEN"})
(* Unknown commands, answered by a message, that read like a result line. *)
ResultLines == From("registered", {"OK", "ERROR"})
Many == From("registered", {"OPEN", "CLOSE", "OPEN_OTHER", "STATUS", "SENDSMS_BAD", "RESET"})
          \cup From("other", {"OPEN", "ERROR"}) \cup From("ignored", {"OK"})
=============================================================================
