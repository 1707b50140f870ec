--------------------------- MODULE MCContentStore ---------------------------
(* Small instances of the content store for TLC. *)
EXTENDS ContentStore

(* Three bytes need two chunks, two bytes exactly one. *)
MCValues == {<<"a", "a", "a">>, <<"b", "b">>}

Entry(d, k, v) == [at |-> <<d, k>>, value |-> v]

(* One batch that fits a buffer, one that does not. *)
MCBatches ==
    {<<Entry("thread", 1, <<"b", "b">>), Entry("sender_key", 1, <<"b", "b">>)>>,
     <<Entry("thread", 1, <<"a", "a", "a">>), Entry("thread", 2, <<"a", "a", "a">>)>>}

(* One name that is refused before it reaches the server. *)
MCLongNames == {<<"sender_key", 2>>}
=============================================================================
