----------------------------- MODULE MCSessions -----------------------------
EXTENDS Sessions

\* One session with output and input, or two that only come and go.
MCBounds == {[sessions |-> 1, out |-> 1, in |-> 2], [sessions |-> 2, out |-> 0, in |-> 0]}
=============================================================================
