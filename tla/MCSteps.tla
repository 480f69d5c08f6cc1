------------------------------ MODULE MCSteps ------------------------------
(***************************************************************************)
(* Model values for CheckStep: one step per kind of method, valid and not. *)
(***************************************************************************)
EXTENDS CheckStep

At(x, y) == [x |-> x, y |-> y]

Writes(m) == Rpc(m, TRUE)
Reads(m)  == Rpc(m, FALSE)

KeyboardSteps ==
    {StepOf("key", TRUE, MethodKeys(<<"a">>)),
     StepOf("macro", TRUE, MethodKeys(<<"a", "b">>)),
     StepOf("macro", TRUE, MethodKeys(<<"a", "unknown">>)),
     StepOf("type", TRUE, MethodType(<<"a", "b">>)),
     StepOf("type", TRUE, MethodType(<<"a", "unknown">>)),
     StepOf("install", TRUE, RunInstall(<<MethodKeys(<<"a">>), MethodType(<<"b">>)>>))}

PointerSteps ==
    {StepOf("click", TRUE, MethodPointer(At(1, 2), 1, TRUE)),
     StepOf("move", TRUE, MethodPointer(At(1, 2), 1, FALSE)),
     StepOf("click", TRUE, MethodPointer(At(4, 2), 1, TRUE)),
     StepOf("move", TRUE, MethodPointer(At(1, 2), NoButton, FALSE)),
     StepOf("drag", TRUE, MethodDrag(At(0, 3), At(3, 0), 1)),
     StepOf("drag", TRUE, MethodDrag(At(0, 3), At(3, 4), 1))}

CallSteps ==
    {StepOf("status", FALSE, MethodCall(TRUE, Reads("ping"))),
     StepOf("screenshot", FALSE, MethodScreenshot),
     StepOf("diagnostics", TRUE, MethodDiagnostics(<<Reads("getVideoState"), Reads("getUSBState")>>)),
     StepOf("power", TRUE, MethodCall(TRUE, Writes("setATXPowerAction"))),
     StepOf("power", FALSE, MethodCall(TRUE, Writes("setATXPowerAction"))),
     StepOf("set-video", TRUE, MethodCall(FALSE, Writes("setVideoCodecPreference"))),
     StepOf("factory-reset", TRUE, MethodCall(FALSE, Writes("factoryReset"))),
     StepOf("rpc", TRUE, MethodCall(TRUE, Writes("factoryReset"))),
     StepOf("rpc", TRUE, MethodCall(TRUE, Writes("setEDID")))}

Key == StepOf("key", TRUE, MethodKeys(<<"a">>))

GatedSteps ==
    {[Key EXCEPT !.box = TRUE], [Key EXCEPT !.entity = "missing"], [Key EXCEPT !.address = FALSE],
     [Key EXCEPT !.complete = FALSE], [Key EXCEPT !.allow = FALSE]}

AllSteps == KeyboardSteps \cup PointerSteps \cup CallSteps \cup GatedSteps
=============================================================================
