----------------------------- MODULE MCInPlace -----------------------------
(* A scaled-down nRF52: pages of two bytes, nine pages of flash, images up  *)
(* to seven bytes; all legacy, layout-driven and explicit windows.          *)
EXTENDS InPlace

Layout(base, end, ceiling, flags) ==
    [app_base |-> base, linked_app_end |-> end, stage_ceiling |-> ceiling, flags |-> flags]

MCLayouts ==
    {Layout(2, 20, 20, {}), Layout(4, 20, 20, {"auto"}), Layout(2, 20, 20, {"hybrid"}),
     Layout(2, 14, 14, {"extrafs"}), Layout(2, 20, 20, {"sd"}),
     Layout(2, 16, 20, {"qspi", "scratch"}), Layout(2, 14, 14, {}), Layout(2, 20, 20, {"sd", "qspi"})}
MCAppBases == {2, 4}
MCLens == 0..7
MCSegments == {0, 2, 5}
MCMemories == {4, 8, 9, 10, 15, 16}
MCTotals == {1, 2, 3, 5, 6, 8}

=============================================================================
