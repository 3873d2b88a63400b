SPECIFICATION Spec
CONSTANTS
  Servers = {g1, g2}
  Agents = {a1}
  Gateway = Gateway
  Addresses = {x, y}
  NoAddress = NoAddress
  TTL = 1
  ReapAfter = 0
INVARIANT TypeOK
PROPERTIES DeadForgotten ServerReturns GatewayServed AgentServed
