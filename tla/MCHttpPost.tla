----------------------------- MODULE MCHttpPost -----------------------------
(* A small instance of HttpPost for TLC.                                   *)
EXTENDS HttpPost

(* The body of A fits every buffer; B has an id too long for device_id and *)
(* C an empty one.  D is too long for the response buffer, E only for that *)
(* of the body.  F and G have no id, and the first digits of G could pass  *)
(* for a success.                                                          *)
MCReplies ==
    LET Reply(code, head, lead, named, id) ==
            [code |-> code, head |-> head, lead |-> lead, named |-> named, id |-> id]
    IN  { Reply(200, 1, <<"quote">>, TRUE, <<"a">>),        \* A
          Reply(200, 1, <<>>, TRUE, <<"a", "b">>),          \* B
          Reply(200, 1, <<>>, TRUE, <<>>),                  \* C
          Reply(201, 3, <<>>, TRUE, <<"a", "b">>),          \* D
          Reply(200, 1, <<"quote">>, TRUE, <<"a", "b">>),   \* E
          Reply(204, 1, <<>>, FALSE, <<>>),                 \* F
          Reply(404, 1, <<"a">>, FALSE, <<>>) }             \* G
=============================================================================
