---------------------------- MODULE MCSimulation ----------------------------
(* Model checking of a simulated run. *)
EXTENDS Simulation

\* Polling and reading the UART, both output registers, a plain register.
MCAccesses ==
  {<<FALSE, UART_LSR, 0>>, <<FALSE, UART_RXD, 0>>, <<TRUE, UART_TXD, 321>>,
   <<TRUE, VIRTUAL_UART, 322>>, <<TRUE, VIRTUAL_UART, 255>>,
   <<TRUE, OPEN_TRACE, 0>>, <<TRUE, NUM, 16777217>>, <<TRUE, CR0, 7>>, <<FALSE, CR0, 0>>}
MCTerminal == <<97, 98>>
=============================================================================
