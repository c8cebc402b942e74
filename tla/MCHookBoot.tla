----------------------------- MODULE MCHookBoot -----------------------------
(***************************************************************************)
(* A small instance of HookBoot for TLC: the ways the CUDA runtime has had *)
(* of finding the driver, on both versions of dlsym(), with drivers that   *)
(* are complete, too old for cuGetProcAddress(), without NVML, or broken.  *)
(***************************************************************************)
EXTENDS HookBoot

Platform(asks, version, lacks) == [asks |-> asks, dlsym |-> version, lacks |-> lacks]

SomePlatforms ==
    {Platform("link", "225", {}),
     Platform("dlsym", "225", OptionalSymbols \cup {"nvmlInit"}),
     Platform("dlsym", "234", {"cuMemcpyDtoDAsync"}),
     Platform("cuGetProcAddress", "225", OptionalSymbols),
     Platform("cuGetProcAddress", "234", {"cuGetProcAddress_v2"}),
     Platform("cuGetProcAddress_v2", "234", {}),
     Platform("cuGetProcAddress_v2", "225", NvmlSymbols)}
=============================================================================
