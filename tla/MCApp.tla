-------------------------------- MODULE MCApp --------------------------------
(* Instances of App for TLC: an HTTP and a gRPC server that announce their *)
(* startup, a component that does not, one whose name is taken, one with   *)
(* a blank name.                                                           *)
EXTENDS AppLifecycle

CONSTANTS http, grpc, tracing, twin, nameless

MCNameOf == [c \in Component |->
  CASE c = http -> "http" [] c = grpc -> "grpc" [] c = tracing -> "tracing"
    [] c = twin -> "http" [] c = nameless -> Blank]
=============================================================================
