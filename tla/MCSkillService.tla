---- MODULE MCSkillService ----
(* Model-checking module: the constants are set in the configuration.      *)
EXTENDS SkillService
====
