------------------------------- MODULE MCLevm -------------------------------
(* Instances of Levm: 15-bit words of three bytes, the gas costs of          *)
(* the source, a machine at address 0, two contracts that it can call and an *)
(* empty account.                                                            *)
EXTENDS Levm, SequencesExt

Callee == 7
Other == 8
Empty == 9
Missing == 60

Op(name) == to_bytecode(name, 0, 0)
Num(name, n) == to_bytecode(name, n, 0)
P(v) == to_bytecode("PUSH", 3, v)
Pushes(values) == FlattenSeq([i \in DOMAIN values |-> P(values[Len(values) + 1 - i])])
Apply(name, values) == Pushes(values) \o Op(name)

\* Each operation is applied to the result of the one before and to the operands.
Chain(names, operands) ==
  P(9) \o FlattenSeq([i \in DOMAIN names |-> Pushes(operands) \o Op(names[i])])

CallOf(type, to, value) ==
  Pushes(<<50, to>> \o (IF type \in {"CALL", "CALLCODE"} THEN <<value>> ELSE <<>>)
         \o <<1, 3, 6, 3>>) \o Op(type)

Calculations ==
  {Chain(<<"ADD", "MUL", "SUB", "DIV", "MOD", "SIGNEXTEND", "LT", "GT", "EQ">>, <<5>>),
   Chain(<<"SDIV", "SMOD", "SLT", "SGT", "AND", "OR", "XOR", "BYTE", "SHL", "SHR", "SAR">>, <<WORD - 2>>),
   Chain(<<"ADDMOD", "MULMOD">>, <<6, WORD - 1>>) \o Op("NOT") \o Op("ISZERO"),
   Chain(<<"DIV", "SDIV", "MOD", "SMOD">>, <<8, 0>>) \o Apply("ADDMOD", <<1, 2, 0>>),
   Apply("SDIV", <<WORD - 1, 2>>), Apply("EXP", <<3, 11>>) \o Apply("EXP", <<2, 40>>),
   Op("ADD"), Op("NOT"), Op("EXP")}

Reads ==
  {Op("CALLDATASIZE") \o Op("RETURNDATASIZE") \o Op("PC") \o Op("COINBASE") \o Op("TIMESTAMP")
     \o Op("NUMBER") \o Op("PREVRANDAO"),
   Op("GASLIMIT") \o Op("CHAINID") \o Op("BASEFEE") \o Op("BLOBBASEFEE") \o Op("PUSH0")
     \o Op("MSIZE") \o Op("GAS"),
   Op("SELFBALANCE"), Op("BLOBHASH"), Apply("BLOCKHASH", <<299>>) \o Apply("BLOCKHASH", <<10>>),
   Op("BLOCKHASH"), P(4) \o P(5) \o Num("DUP", 2) \o Num("SWAP", 2) \o Op("POP") \o Op("STOP"),
   P(1) \o Num("SWAP", 1), P(1) \o Num("DUP", 2), Op("POP"), <<Byte("PUSH", 3, 0), DataByte(1)>>}

Jumps ==
  {Op("JUMPDEST") \o P(1) \o P(0) \o Op("JUMPI"),
   Op("JUMPDEST") \o P(0) \o P(0) \o Op("JUMPI") \o P(11) \o Op("JUMP"),
   P(8) \o Op("JUMP") \o <<Byte("PUSH", 3, 0), DataByte(0), DataByte(0), Byte("JUMPDEST", 0, 4)>>
     \o Op("STOP"),
   P(2) \o Op("JUMP"), P(1) \o P(2) \o Op("JUMPI"), Op("JUMP"), P(0) \o Op("JUMPI"),
   P(WORD - 1) \o Op("JUMP")}

Memories ==
  {Apply("MSTORE", <<4, 1000>>) \o Apply("MLOAD", <<5>>) \o Apply("MSTORE8", <<13, 9>>)
     \o Apply("KECCAK256", <<2, 8>>),
   Apply("CALLDATALOAD", <<1>>) \o Apply("CALLDATACOPY", <<7, 1, 2>>) \o Apply("CALLDATACOPY", <<7, 1, 0>>)
     \o Apply("RETURNDATACOPY", <<1, 0, 2>>),
   Apply("MSTORE", <<0, 77>>) \o Apply("MCOPY", <<1, 0, 7>>) \o Apply("MCOPY", <<900, 0, 0>>)
     \o Apply("SLOAD", <<1>>) \o P(1),
   Num("LOG", 1), Pushes(<<1, 2, 3, 4>>) \o Num("LOG", 2), Pushes(<<1, 2, WORD - 1>>) \o Num("LOG", 1),
   Apply("MLOAD", <<WORD - 1>>), Apply("MLOAD", <<WORD - 71>>), Op("MLOAD"), Apply("MSTORE", <<1>>),
   Op("MSTORE"), Op("MCOPY"), Apply("MCOPY", <<WORD - 1, 0, 1>>), Op("KECCAK256"), Op("CALLDATACOPY"),
   Apply("CALLDATALOAD", <<9>>), Op("CALLDATALOAD"), Apply("SSTORE", <<1>>), Op("SLOAD"),
   Apply("SSTORE", <<1, 5>>) \o Apply("SSTORE", <<1, 6>>) \o Apply("SLOAD", <<1>>),
   Apply("TSTORE", <<1, 5>>) \o Apply("TLOAD", <<1>>) \o Apply("TLOAD", <<2>>), Op("TLOAD"),
   Op("TSTORE"), Apply("RETURN", <<4, 3>>), Op("RETURN"), <<Byte("REVERT", 0, 0)>>}

CallOps == {"CALL", "CALLCODE", "DELEGATECALL", "STATICCALL"}

Calls ==
  {CallOf(type, Callee, value) \o Op("RETURNDATASIZE") \o Apply("SSTORE", <<3, 3>>) :
     type \in CallOps, value \in {0, 2}}
  \union {CallOf("CALLCODE", Callee, 99)}
  \union {CallOf("CALL", to, value) : to \in {Empty, Missing}, value \in {0, 2, 99}}
  \union {Op(type) : type \in CallOps}
  \union {Pushes(<<50, Callee>> \o (IF type = "CALLCODE" THEN <<0>> ELSE <<>>) \o ranges) \o Op(type) :
            type \in CallOps \ {"CALL"}, ranges \in {<<1, WORD - 1, 6, 3>>, <<20000, 20000, 6, 3>>}}

CalleeCodes ==
  {Apply("SSTORE", <<1, 4>>) \o Apply("RETURN", <<0, 2>>), Op("STOP"), Num("LOG", 0),
   Pushes(<<0, 1>>) \o Num("LOG", 0) \o Apply("RETURN", <<5, 1>>)}
  \union {CallOf(type, Other, 0) \o Apply("SSTORE", <<2, 7>>) : type \in CallOps}

\* Contracts that call themselves without end.
Recursions == {CallOf(type, Callee, 0) \o Apply("SSTORE", <<2, 7>>) : type \in CallOps}

OtherCode == Apply("SSTORE", <<1, 9>>) \o Apply("RETURN", <<0, 0>>)

BlockEnv ==
  [number |-> 300, coinbase |-> 3, timestamp |-> 44, base_fee_per_gas |-> 7, gas_limit |-> 3000,
   chain_id |-> 1, prev_randao |-> 12, excess_blob_gas |-> 30, blob_gas_used |-> 5]

Setup(bytecode, callee, gas_limit_) ==
  [bytecode |-> bytecode, address |-> 0, balance |-> 50, gas_limit |-> gas_limit_,
   accounts |-> (Callee :> Account(5, callee)) @@ (Other :> Account(0, OtherCode))
                @@ (Empty :> Account(0, <<>>)),
   block_env |-> BlockEnv, block_hashes |-> (299 :> 21) @@ (10 :> 22), calldata |-> <<1, 2, 3, 4, 5>>]

\* The limits end the programs at each of their operations, and let the longest
\* that end by themselves run to their end.
GasLimits == {21000, 21004, 21007, 21010, 21013, 21020, 21060, 21400}

MCSetups ==
  {Setup(bytecode, <<>>, limit) :
     bytecode \in Calculations \union Reads \union Jumps \union Memories, limit \in GasLimits}
  \union {Setup(bytecode, <<>>, 24000) : bytecode \in Memories}
  \union {Setup(bytecode, callee, limit) :
            bytecode \in Calls, callee \in CalleeCodes, limit \in {21100, 23700, 80000}}
  \union {Setup(bytecode, callee, 21400) : bytecode \in Calls, callee \in Recursions}

MCKeccak(bytes) == (7 * Len(bytes) + from_big_endian(bytes)) % WORD
=============================================================================
