-------------------------------- MODULE MCStartup --------------------------------
(* Model checking of Startup: every configuration of the seven modules and the  *)
(* four services, as Kconfig can give it.                                       *)
EXTENDS Startup
================================================================================
