CONSTANTS
  Width <- MCWidth
  Accums <- MCAccums
  Datas <- MCDatas
  Operands <- MCOperands
  Immediates <- MCImmediates
SPECIFICATION Spec
INVARIANTS
  ProductsExact
  QuotientsExact
  WideningExact
