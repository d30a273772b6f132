SPECIFICATION PatientSpec
CONSTANTS
  first = first
  second = second
  producer1 = producer1
  entrepreneur = entrepreneur
  consumer1 = consumer1
  consumer2 = consumer2
  Nothing = Nothing
  Buffers <- MCBuffers
  Size = 2
  x = x
  y = y
  Items <- MCItems
  Producers <- MCProducers
  Consumers <- MCConsumers
  Route <- MCRoute
  Serves <- MCServes
  Children <- MCChildren
CHECK_DEADLOCK FALSE
INVARIANT MutualExclusion
PROPERTIES Refinement NobodyStuck
