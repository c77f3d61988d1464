---------------------------- MODULE MCCredentials ----------------------------
(***************************************************************************)
(* Stores for TLC: entries that differ in what they lack, and two          *)
(* accounts, the second without a region.                                  *)
(***************************************************************************)
EXTENDS Credentials

SomeText == {"a", "b", "KR", "US", "net"}

Full    == [key |-> "a", secret |-> "a", region |-> "US", vpc |-> "a", subnet |-> "a"]
NoNet   == [Full EXCEPT !.subnet = ""]
Half    == [Full EXCEPT !.secret = ""]
Foreign == [Full EXCEPT !.key = "b", !.secret = "b", !.region = "", !.vpc = ""]

SomeContents == {Full, NoNet, Half, Foreign}
SomeConfigMaps == {[region |-> "", vpc |-> "", subnet |-> ""],
                   [region |-> "", vpc |-> "net", subnet |-> "net"],
                   [region |-> "US", vpc |-> "net", subnet |-> ""]}
=============================================================================
