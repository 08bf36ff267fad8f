---------------------------- MODULE MCHttpServer ----------------------------
(* The instance of HttpServer of http.cfg: three clients, each of which may  *)
(* stall, close, reset, stop reading or go on to the end; the handler of one *)
(* throws, the length of another does not parse.                             *)
EXTENDS HttpServer, TLC

CONSTANTS c1, c2, c3

Announced3 == c1 :> 2 @@ c2 :> 1 @@ c3 :> 0
=============================================================================
