-------------------------- MODULE MCSurplusControl --------------------------
(* Two targets and two outputs; the configurations move a target to another  *)
(* output, let two share one, and make the thermostat the owner of one.      *)
EXTENDS SurplusControl

CONSTANTS t1, t2, o1, o2

Bind(a, b) == [t \in Targets |-> IF t = t1 THEN a ELSE b]
Config(bind, kind2, weekly, act) ==
  [bind |-> bind, kind |-> [t \in Targets |-> IF t = t1 THEN "generic_load" ELSE kind2],
   weekly |-> weekly, act |-> act]

MCOrder == <<t1, t2>>
MCConfigs == {
  Config(Bind(o1, o2), "generic_load", {}, TRUE),
  Config(Bind(o1, o1), "generic_load", {t2}, TRUE),
  Config(Bind(o2, o1), "domestic_hot_water", {t1}, TRUE) }

Full == [soc |-> 95, total |-> None, strings |-> <<3, 2>>, meter |-> 1, sign |-> "import positive"]
Low == [soc |-> 40, total |-> 5, strings |-> <<3, None>>, meter |-> 0, sign |-> "import negative"]
NoMeter == [soc |-> 95, total |-> 5, strings |-> <<>>, meter |-> None, sign |-> "import negative"]
MCObserved == {Full, Low, NoMeter}
=============================================================================
