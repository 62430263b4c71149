--------------------------- MODULE MCJObjectValues ---------------------------
(* A Java and a native thread, two values, a ring of two.                    *)
EXTENDS JObjectValues
=============================================================================
