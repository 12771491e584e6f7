----------------------------- MODULE MCWebServer -----------------------------
(* A small instance of WebServer: three phones for two workers, of which one *)
(* can be held by a stream.                                                  *)
EXTENDS WebServer
=============================================================================
