---------------------------- MODULE MCIndexPipeline ----------------------------
(* Instances of IndexPipeline: two files, the first of which imports the other. *)
EXTENDS IndexPipeline

MCFiles == {"a", "b"}
MCImports == {<<"a", "b">>}
=============================================================================
