----------------------------- MODULE MCPreCheck ------------------------------
(* The instance of PreCheck that shows what a restart of the master does.  *)
EXTENDS PreCheck

Op(k, b) == [kind |-> k, bypass |-> b]
MCOpLists ==
  {<<>>,
   <<Op("scheduling", FALSE), Op("connection", FALSE)>>,
   <<Op("scheduling", TRUE), Op("connection", FALSE)>>,
   <<Op("scheduling", FALSE), Op("connection", TRUE)>>}
=============================================================================
