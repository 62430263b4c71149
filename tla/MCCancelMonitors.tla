--------------------------- MODULE MCCancelMonitors ---------------------------
(* A chain of two links, two or three threads.                             *)
EXTENDS CancelMonitors

\* Callbacks on the event loop, with a root whose onCancel settles it; Sync
\* callbacks, with a root whose onCancel leaves that to another thread.
Harmless == { [inline |-> FALSE, inPlace |-> TRUE],
              [inline |-> TRUE, inPlace |-> FALSE] }

\* Sync callbacks, and a root whose onCancel settles it.
SyncInPlace == { [inline |-> TRUE, inPlace |-> TRUE] }
=============================================================================
