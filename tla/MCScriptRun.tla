----------------------------- MODULE MCScriptRun -----------------------------
(* Two scripts for new documents, one for the loaded page, one for chains only, and one that
   is for scope checks.                                                                     *)
EXTENDS ScriptRun

CONSTANTS doc1, doc2, load1, chain1, scope1, k1, k2, v1, v2

MCConfigured == <<doc1, chain1, doc2, scope1, load1>>
MCTypeOf ==
  [s \in Scripts |-> CASE s \in {doc1, doc2} -> "onNewDocument" [] s = load1 -> "onLoad"
                       [] s = chain1 -> "undefined" [] OTHER -> "scopeCheck"]
MCAnnotationOf == [s \in Scripts |-> IF s = doc2 THEN Empty ELSE [k \in {k1} |-> v1]]
=============================================================================
