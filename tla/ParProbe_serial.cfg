\* Probe sides of up to three batches, each giving up to two, over two workers.
CONSTANTS
  Probes <- ShortProbes
  N = 2
  Depth = 1
SPECIFICATION Spec
PROPERTIES
  ImplementsSerial
  ProbeEnds
\* The driver stops once Close has returned.
CHECK_DEADLOCK FALSE
