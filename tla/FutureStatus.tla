---------------------------- MODULE FutureStatus ----------------------------
(***************************************************************************)
(* What the bindings see of a native libqi future (qi::Future, whose code   *)
(* is not in this repository): a status read through qiFutureCallIsDone,    *)
(* qiFutureCallIsCancelled and qiFutureCallGet.                             *)
(*                                                                         *)
(*   "running"    no result yet                                            *)
(*   "value"      finished with a value Java can represent                 *)
(*   "opaque"     finished with a value whose conversion to a Java object  *)
(*                throws (jobjectconverter.cpp 42-45, 150, 168, 229)       *)
(*   "error"      finished with an error                                   *)
(*   "cancelled"  finished as cancelled                                    *)
(***************************************************************************)

Failed == {"error", "cancelled"}
Results == {"value", "opaque"} \cup Failed
Status == {"running"} \cup Results

\* Future.isDone.
Done(s) == s \in Results

\* Future.getResult returns a FutureResult: hasError() and getValue() both go
\* through qiFutureCallGet, which throws for a value it cannot convert.
Readable == Results \ {"opaque"}
=============================================================================
