----------------------------- MODULE MCKnowledge -----------------------------
(* One document, whose object is replaced by a shorter text and then by an *)
(* empty one, for two stores with a container to create.                   *)
EXTENDS Knowledge

MCLength == <<2, 1, 0>>
MCUnreadable == {}
MCStores == <<"vector", "text">>
=============================================================================
