--------------------------- MODULE MCAllowBuilder ---------------------------
(***************************************************************************)
(* The declarations of time.rs and user_id.rs, and every declaration of   *)
(* one shape with each method safe or unsafe: an outer block chaining an  *)
(* inner block and a leaf, the inner block chaining a second leaf.        *)
(***************************************************************************)
EXTENDS AllowBuilder

ShapedDecl(u1, u2, u3, u4) ==
    [outer |-> Block(u1, <<"mid", "leafA">>),
     mid   |-> Block(u2, <<"leafB">>),
     leafA |-> Leaf(u3, "a"),
     leafB |-> Leaf(u4, "b")]

MCDecls ==
    {TimeMethods, UserIdMethods} \cup
    {ShapedDecl(u1, u2, u3, u4) : u1, u2, u3, u4 \in BOOLEAN}

=============================================================================
