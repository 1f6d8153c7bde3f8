---------------------------- MODULE MCViewerStream ----------------------------
(* One run followed by one page: an attempt and a resume, two streamed records *)
(* of the journal, a crash that may tear one of them or the first event, reads *)
(* that split a record, one hitch of the connection.                           *)
EXTENDS ViewerStream

\* What src/docs/frontend/DESIGN.md:1036 says of an `end` frame: the stream is complete.
EndIsComplete ==
  \A i \in DOMAIN wire : wire[i].type = "end" /\ engine = "done" =>
    \A s \in Streams : wire[i].id[s] >= LastEnd(file[s])
=============================================================================
