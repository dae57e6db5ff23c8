------------------------------- MODULE MCPages -------------------------------
(* Constants of Pages for TLC.                                             *)
EXTENDS Pages

\* Three cases of five are open at first, the oldest is not the first in the
\* order; the query finds two, and the last page is not full.
MCOpened == <<4, 2, 3>>
=============================================================================
