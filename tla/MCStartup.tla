----------------------------- MODULE MCStartup ------------------------------
(***************************************************************************)
(* Startup.tla with every address of the memory map divided by eight: 64   *)
(* KB are 16 sectors, 10 sectors are read, and a page is a sector.  The    *)
(* kernels are the least that holds the page tables and the most that is   *)
(* read.  The interrupt table has the sizes of the code and made-up        *)
(* addresses, the last one at the end of the 64 KB.                        *)
(***************************************************************************)
EXTENDS Startup

MCSystemSectors == {6, 10}

FirstVector(h) ==
    CHOOSE v \in 0..48 : h = Gate(v) /\ \A u \in 0..(v - 1) : h # Gate(u)

MCAddress == [h \in Handlers |-> 65535 - 40 * FirstVector(h)]
=============================================================================
