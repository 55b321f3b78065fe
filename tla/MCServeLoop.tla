------------------------------ MODULE MCServeLoop ------------------------------
(* Four requests over two warm places and three scopes, one of them refused. *)
EXTENDS ServeLoop

CONSTANTS r1, r2, r3, r4, s1, s2, s3

MCScopeOf == r1 :> s1 @@ r2 :> s2 @@ r3 :> s3 @@ r4 :> Unsafe
===============================================================================
