--------------------------- MODULE BatchCommands ----------------------------
(***************************************************************************)
(* The commands about batch jobs (commands.batch.go).                      *)
(***************************************************************************)
EXTENDS CommandHelpers

DescribeFlags == Takes({"job-id"}, {})

ListFlags == Takes({}, {"limit"})

TerminateFlags == Takes({"job-id", "reason"}, {})

-----------------------------------------------------------------------------

Describe(f) == Dial \o Read("DescribeBatchOperation", {"job-id"}) \o Show({})

\* Page by page, down to the limit; the module Listing has the pages.
List(f) == Dial \o Read("ListBatchOperations", {"limit"}) \o Show({})

Terminate(f) == Dial \o Send("StopBatchOperation", {"job-id", "reason"}, {})

-----------------------------------------------------------------------------
(* The commands of this family, by name.                                   *)

Commands == [
  describe |-> DescribeFlags, list |-> ListFlags, terminate |-> TerminateFlags]

Handler(name, f) ==
  CASE name = "describe" -> Describe(f)
    [] name = "list" -> List(f)
    [] name = "terminate" -> Terminate(f)

=============================================================================
