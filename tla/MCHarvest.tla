------------------------------ MODULE MCHarvest ------------------------------
(* Model-checking instance of Harvest.                                     *)
EXTENDS Harvest

Request(net, url, ref, warc) == [net |-> net, url |-> url, ref |-> ref, warc |-> warc]

\* A page that two redirects lead to; a page behind one redirect with a resource that names
\* another; a page that asks for itself, is redirected there, and loads a resource.
MCPages == {
  <<Request(1, "a", "", FALSE), Request(1, "b", "", TRUE), Request(1, "c", "", TRUE),
    Request(2, "d", "c", TRUE)>>,
  <<Request(1, "a", "", TRUE), Request(1, "b", "", FALSE), Request(2, "c", "b", TRUE),
    Request(3, "d", "c", TRUE)>>,
  <<Request(1, "a", "", TRUE), Request(2, "a", "a", TRUE), Request(2, "b", "a", TRUE),
    Request(3, "c", "b", FALSE)>>}
=============================================================================
