----------------------------- MODULE MCService -----------------------------
EXTENDS Service, TLC

CONSTANTS rec, live, probe

Everyone == {rec, live, probe}
Kinds == (rec :> "upload") @@ (live :> "stream") @@ (probe :> "health")
Headers == (rec :> "k1") @@ (live :> "k2") @@ (probe :> None)

Trimmed == ("k1" :> "k1") @@ (" k2" :> "k2") @@ ("  " :> "") @@ (Garbled :> Garbled)

Cfg(list, flags, file, eng) == [list |-> list, flags |-> flags, file |-> file, engine |-> eng]
SomeConfigs == {
  Cfg(TRUE, {}, None, "transcribe"),
  Cfg(FALSE, {}, None, "transcribe"),
  Cfg(FALSE, {}, <<"  ">>, "fake"),
  Cfg(FALSE, {"k1"}, <<"  ", " k2">>, "transcribe"),
  Cfg(FALSE, {"k1"}, None, "fake"),
  Cfg(FALSE, {}, <<" k2">>, "transcribe"),
  Cfg(FALSE, {}, <<"k1", Garbled>>, "fake"),
  Cfg(FALSE, {}, Missing, "fake"),
  Cfg(FALSE, {"k1"}, None, "other") }
=============================================================================
